---- MODULE Spec2Model ----
(***************************************************************************)
(* Model of the MethodSCRIPT result decoder of hardpotato                  *)
(* (src/src/hardpotato/pico_mscript.py), of its serial transport           *)
(* (pico_serial.py), of the exchange Technique.run has with the device     *)
(* (potentiostat.py) and of the range check of emstatpico.py.              *)
(*                                                                         *)
(* A Python str is modelled as a sequence of one-character strings, so     *)
(* that slicing, split(), startswith() and int(s, 16) are computed on the  *)
(* characters the way the interpreter computes them.  A call that raises   *)
(* is modelled by a record [exc |-> <exception name>]; a call that returns *)
(* v by [exc |-> "", val |-> v].                                           *)
(***************************************************************************)
EXTENDS Integers, Sequences, FiniteSets, TLC

VARIABLES
    data,           \* SpecVar: the token handed to MScriptVar(data)
    var,            \* SpecVar: what the constructor produced
    prop,           \* SpecVar: the last property read off the variable
    pcv,            \* SpecVar: position of the decoder scenario
    line,           \* SpecPackage: the line handed to parse_mscript_data_package
    package,        \* SpecPackage: what the call produced
    pcp,            \* SpecPackage: position of the package scenario
    lines,          \* Spec: argument of parse_result_lines
    idx,            \* Spec: number of lines the for loop has consumed
    curves,         \* Spec: local `curves` of parse_result_lines
    current_curve,  \* Spec: local `current_curve` of parse_result_lines
    result,         \* Spec: what parse_result_lines produced
    values,         \* Spec: what get_values_by_column produced
    pc,             \* Spec: position of the parsing scenario
    first,          \* SpecPure: input and result of the earlier call
    model_pstat,    \* SpecRun: global model_pstat of potentiostat.py
    port_,          \* SpecRun: global port_ of potentiostat.py
    port,           \* SpecRun: attribute self.port of the Technique
    ports,          \* SpecRun, SpecDetect: what comports() enumerated
    detected,       \* SpecDetect: what auto_detect_port produced
    connection,     \* SpecRun, SpecSerial: the pyserial object of the Serial
    trace,          \* SpecRun, SpecSerial: calls made so far, in order
    state,          \* SpecRun: state of the instrument driver
    received,       \* SpecRun: lines accumulated by readlines_until_end
    empties,        \* SpecRun: empty reads in a row seen by readlines_until_end
    run,            \* SpecRun: what Technique.run produced
    pcr,            \* SpecRun: position of Technique.run
    pcs,            \* SpecSerial: position of the program using the Serial
    val,            \* SpecLimits: argument val of Info.limits
    low,            \* SpecLimits: argument low of Info.limits
    high,           \* SpecLimits: argument high of Info.limits
    within,         \* SpecLimits: what Info.limits produced
    wrapper,        \* SpecTechnique: the technique object under construction or built
    stdout,         \* SpecTechnique: what the calls printed, in order
    called,         \* SpecTechnique: the last call on the wrapper and how it ended
    pct             \* SpecTechnique: position of the program using the wrapper

varsVar == <<data, var, prop, pcv>>
varsPackage == <<line, package, pcp>>
varsParse == <<lines, idx, curves, current_curve, result, values, pc>>
varsPure == <<first>>
varsRun == <<model_pstat, port_, port, ports, connection, trace, state,
             received, empties, run, pcr>>
varsDetect == <<detected>>
varsSerial == <<pcs>>
varsLimits == <<val, low, high, within>>
varsTech == <<wrapper, stdout, called, pct>>
varsIO == <<first, model_pstat, port_, port, ports, detected, connection, trace,
            state, received, empties, run, pcr, pcs, val, low, high, within,
            wrapper, stdout, called, pct>>
vars == <<data, var, prop, pcv, line, package, pcp,
          lines, idx, curves, current_curve, result, values, pc,
          first, model_pstat, port_, port, ports, detected, connection, trace,
          state, received, empties, run, pcr, pcs, val, low, high, within,
          wrapper, stdout, called, pct>>

----------------------------------------------------------------------------
(* Outcomes of a call *)

Return(v) == [exc |-> "", val |-> v]

Raise(e) == [exc |-> e]

Returned(r) == r.exc = ""

Unset == [exc |-> "unset"]

----------------------------------------------------------------------------
(* Python str primitives, on sequences of characters *)

\* s[a:b] for 0 <= a <= b, clipped to the length of s as a Python slice is
Slice(s, a, b) ==
    LET hi == IF b < Len(s) THEN b ELSE Len(s)
    IN  IF a >= hi THEN << >> ELSE SubSeq(s, a + 1, hi)

\* s[a:] for a >= 0
SliceFrom(s, a) == Slice(s, a, Len(s))

RECURSIVE Split(_, _)
\* s.split(sep) for a one-character separator: never an empty list
Split(s, sep) ==
    IF \A k \in 1..Len(s) : s[k] /= sep
    THEN << s >>
    ELSE LET k == CHOOSE j \in 1..Len(s) :
                      s[j] = sep /\ \A m \in 1..(j - 1) : s[m] /= sep
         IN  << SubSeq(s, 1, k - 1) >> \o Split(SubSeq(s, k + 1, Len(s)), sep)

StartsWith(s, c) == Len(s) >= 1 /\ s[1] = c

EndsWith(s, c) == Len(s) >= 1 /\ s[Len(s)] = c

WhiteSpace == {" ", "\t", "\n", "\r", "\f"}

RECURSIVE LStrip(_)
LStrip(s) == IF s /= << >> /\ Head(s) \in WhiteSpace THEN LStrip(Tail(s)) ELSE s

RECURSIVE RStrip(_)
RStrip(s) ==
    IF s /= << >> /\ s[Len(s)] \in WhiteSpace
    THEN RStrip(SubSeq(s, 1, Len(s) - 1))
    ELSE s

HexDigits == {"0", "1", "2", "3", "4", "5", "6", "7", "8", "9",
              "a", "b", "c", "d", "e", "f", "A", "B", "C", "D", "E", "F"}

HexDigitValue(c) ==
    CASE c = "0" -> 0  [] c = "1" -> 1  [] c = "2" -> 2  [] c = "3" -> 3
      [] c = "4" -> 4  [] c = "5" -> 5  [] c = "6" -> 6  [] c = "7" -> 7
      [] c = "8" -> 8  [] c = "9" -> 9
      [] c \in {"a", "A"} -> 10  [] c \in {"b", "B"} -> 11
      [] c \in {"c", "C"} -> 12  [] c \in {"d", "D"} -> 13
      [] c \in {"e", "E"} -> 14  [] c \in {"f", "F"} -> 15

\* The digit part of an integer literal: hex digits, single underscores
\* allowed between two digits only.
DigitsWellFormed(d) ==
    /\ d /= << >>
    /\ \A k \in 1..Len(d) : d[k] \in HexDigits \cup {"_"}
    /\ d[1] /= "_"
    /\ d[Len(d)] /= "_"
    /\ \A k \in 1..(Len(d) - 1) : ~(d[k] = "_" /\ d[k + 1] = "_")

RECURSIVE DigitsValue(_, _)
DigitsValue(d, acc) ==
    IF d = << >> THEN acc
    ELSE IF Head(d) = "_" THEN DigitsValue(Tail(d), acc)
    ELSE DigitsValue(Tail(d), 16 * acc + HexDigitValue(Head(d)))

\* int(s, 16), the digits: a value, or ValueError
IntDigits(sign, d) ==
    IF DigitsWellFormed(d) THEN Return(sign * DigitsValue(d, 0)) ELSE Raise("ValueError")

\* int(s, 16), after the sign: an optional 0x / 0X, after which one underscore
\* may come before the digits
IntBased(sign, u) ==
    IF Len(u) >= 2 /\ u[1] = "0" /\ u[2] \in {"x", "X"}
    THEN IntDigits(sign, IF Len(u) >= 3 /\ u[3] = "_" THEN SliceFrom(u, 3)
                                                     ELSE SliceFrom(u, 2))
    ELSE IntDigits(sign, u)

\* int(s, 16), after the whitespace: an optional sign
IntSigned(t) ==
    IF t /= << >> /\ Head(t) \in {"+", "-"}
    THEN IntBased(IF Head(t) = "-" THEN -1 ELSE 1, Tail(t))
    ELSE IntBased(1, t)

\* int(s, 16): surrounding whitespace is stripped first
IntBase16(s) == IntSigned(RStrip(LStrip(s)))

----------------------------------------------------------------------------
(* Static tables *)

\* SI_PREFIX_FACTOR, each factor 1e<n> given by its exponent n
SI_PREFIX_FACTOR ==
    [c \in {"a", "f", "p", "n", "u", "m", " ", "k", "M", "G", "T", "P", "E", "i"} |->
        CASE c = "a" -> -18 [] c = "f" -> -15 [] c = "p" -> -12 [] c = "n" -> -9
          [] c = "u" -> -6  [] c = "m" -> -3  [] c = " " -> 0   [] c = "k" -> 3
          [] c = "M" -> 6   [] c = "G" -> 9   [] c = "T" -> 12  [] c = "P" -> 15
          [] c = "E" -> 18  [] c = "i" -> 0]

VarType(id, name, unit) == [id |-> id, name |-> name, unit |-> unit]

\* The unit strings of "cb".."cd" and "ed" are written in ASCII here.
MSCRIPT_VAR_TYPES_LIST ==
    <<
       VarType(<<"a", "a">>, "unknown", ""),
       VarType(<<"a", "b">>, "WE vs RE potential", "V"),
       VarType(<<"a", "c">>, "CE vs GND potential", "V"),
       VarType(<<"a", "d">>, "SE vs GND potential", "V"),
       VarType(<<"a", "e">>, "RE vs GND potential", "V"),
       VarType(<<"a", "f">>, "WE vs GND potential", "V"),
       VarType(<<"a", "g">>, "WE vs CE potential", "V"),
       VarType(<<"a", "s">>, "AIN0 potential", "V"),
       VarType(<<"a", "t">>, "AIN1 potential", "V"),
       VarType(<<"a", "u">>, "AIN2 potential", "V"),
       VarType(<<"a", "v">>, "AIN3 potential", "V"),
       VarType(<<"a", "w">>, "AIN4 potential", "V"),
       VarType(<<"a", "x">>, "AIN5 potential", "V"),
       VarType(<<"a", "y">>, "AIN6 potential", "V"),
       VarType(<<"a", "z">>, "AIN7 potential", "V"),
       VarType(<<"b", "a">>, "WE current", "A"),
       VarType(<<"c", "a">>, "Phase", "degrees"),
       VarType(<<"c", "b">>, "Impedance", "Ohm"),
       VarType(<<"c", "c">>, "Z_real", "Ohm"),
       VarType(<<"c", "d">>, "Z_imag", "Ohm"),
       VarType(<<"c", "e">>, "EIS E TDD", "V"),
       VarType(<<"c", "f">>, "EIS I TDD", "A"),
       VarType(<<"c", "g">>, "EIS sampling frequency", "Hz"),
       VarType(<<"c", "h">>, "EIS E AC", "Vrms"),
       VarType(<<"c", "i">>, "EIS E DC", "V"),
       VarType(<<"c", "j">>, "EIS I AC", "Arms"),
       VarType(<<"c", "k">>, "EIS I DC", "A"),
       VarType(<<"d", "a">>, "Applied potential", "V"),
       VarType(<<"d", "b">>, "Applied current", "A"),
       VarType(<<"d", "c">>, "Applied frequency", "Hz"),
       VarType(<<"d", "d">>, "Applied AC amplitude", "Vrms"),
       VarType(<<"e", "a">>, "Channel", ""),
       VarType(<<"e", "b">>, "Time", "s"),
       VarType(<<"e", "c">>, "Pin mask", ""),
       VarType(<<"e", "d">>, "Temperature", "deg Celsius"),
       VarType(<<"h", "a">>, "Generic current 1", "A"),
       VarType(<<"h", "b">>, "Generic current 2", "A"),
       VarType(<<"h", "c">>, "Generic current 3", "A"),
       VarType(<<"h", "d">>, "Generic current 4", "A"),
       VarType(<<"i", "a">>, "Generic potential 1", "V"),
       VarType(<<"i", "b">>, "Generic potential 2", "V"),
       VarType(<<"i", "c">>, "Generic potential 3", "V"),
       VarType(<<"i", "d">>, "Generic potential 4", "V"),
       VarType(<<"j", "a">>, "Misc. generic 1", ""),
       VarType(<<"j", "b">>, "Misc. generic 2", ""),
       VarType(<<"j", "c">>, "Misc. generic 3", ""),
       VarType(<<"j", "d">>, "Misc. generic 4", "")
    >>

\* MSCRIPT_VAR_TYPES_DICT = {x.id: x for x in MSCRIPT_VAR_TYPES_LIST}: the
\* last entry of the list with a given id is the one the dict holds.
MSCRIPT_VAR_TYPES_DICT ==
    [id \in {MSCRIPT_VAR_TYPES_LIST[k].id : k \in DOMAIN MSCRIPT_VAR_TYPES_LIST} |->
        LET last == CHOOSE k \in DOMAIN MSCRIPT_VAR_TYPES_LIST :
                        /\ MSCRIPT_VAR_TYPES_LIST[k].id = id
                        /\ \A m \in DOMAIN MSCRIPT_VAR_TYPES_LIST :
                               MSCRIPT_VAR_TYPES_LIST[m].id = id => m <= k
        IN  MSCRIPT_VAR_TYPES_LIST[last]]

\* get_variable_type falling back to the table's own "unknown" entry
get_variable_type_table_unknown(id) ==
    IF id \in DOMAIN MSCRIPT_VAR_TYPES_DICT
    THEN MSCRIPT_VAR_TYPES_DICT[id]
    ELSE MSCRIPT_VAR_TYPES_DICT[<<"a", "a">>]

get_variable_type(id) ==
    IF id \in DOMAIN MSCRIPT_VAR_TYPES_DICT
    THEN MSCRIPT_VAR_TYPES_DICT[id]
    ELSE VarType(id, "unknown", "")

----------------------------------------------------------------------------
(* class MScriptVar *)

\* 2**27, the offset decode_value subtracts
Offset == 134217728

\* The literal data[2:10] is compared with: five spaces and "nan"
NaNField == <<" ", " ", " ", " ", " ", "n", "a", "n">>

NaN == [nan |-> TRUE, n |-> 0]

IntVal(n) == [nan |-> FALSE, n |-> n]

\* `int(var, 16) - (2**27)` once int() has returned or raised
SubtractOffset(r) == IF Returned(r) THEN Return(IntVal(r.val - Offset)) ELSE r

\* the same without the subtraction
KeepUnsigned(r) == IF Returned(r) THEN Return(IntVal(r.val)) ELSE r

\* decode_value without the offset
decode_value_unsigned(v) ==
    IF Len(v) /= 7 THEN Raise("AssertionError") ELSE KeepUnsigned(IntBase16(v))

decode_value(v) ==
    IF Len(v) /= 7 THEN Raise("AssertionError") ELSE SubtractOffset(IntBase16(v))

\* `value = int(..., 16); metadata[key] = value`
SetKey(metadata, key, r) ==
    IF Returned(r)
    THEN Return([k \in DOMAIN metadata \cup {key} |->
                    IF k = key THEN r.val ELSE metadata[k]])
    ELSE r

\* an iteration that tests the first character of the token only
MetadataStep_any_length(metadata, token) ==
    IF Len(token) >= 2 /\ token[1] = "1"
    THEN SetKey(metadata, "status", IntBase16(Slice(token, 1, 2)))
    ELSE IF Len(token) >= 3 /\ token[1] = "2"
    THEN SetKey(metadata, "cr", IntBase16(SliceFrom(token, 1)))
    ELSE Return(metadata)

\* One iteration of the loop of parse_metadata: metadata after `token`
MetadataStep(metadata, token) ==
    IF Len(token) = 2 /\ token[1] = "1"
    THEN SetKey(metadata, "status", IntBase16(Slice(token, 1, 2)))
    ELSE IF Len(token) = 3 /\ token[1] = "2"
    THEN SetKey(metadata, "cr", IntBase16(SliceFrom(token, 1)))
    ELSE Return(metadata)

RECURSIVE MetadataLoop(_, _)
\* the loop goes on with the next token unless the iteration raised
MetadataNext(r, rest) == IF Returned(r) THEN MetadataLoop(r.val, rest) ELSE r

MetadataLoop(metadata, tokens) ==
    IF tokens = << >> THEN Return(metadata)
    ELSE MetadataNext(MetadataStep(metadata, Head(tokens)), Tail(tokens))

EmptyDict == [k \in {} |-> 0]

parse_metadata(tokens) == MetadataLoop(EmptyDict, tokens)

\* the object once every attribute is assigned, or the exception parse_metadata raised
WithMetadata(d, raw, pre, rawmd, md) ==
    IF ~Returned(md) THEN md
    ELSE Return([data |-> d, id |-> Slice(d, 0, 2), raw_value |-> raw,
                 si_prefix |-> pre, raw_metadata |-> rawmd, metadata |-> md.val])

\* lines 290-293: raw_metadata = data.split(",")[1:], then parse_metadata
WithRawMetadata(d, raw, pre, rawmd) ==
    WithMetadata(d, raw, pre, rawmd, parse_metadata(rawmd))

\* lines 282-289 done: raw is what the value field gave, pre the prefix stored
WithValue(d, raw, pre) ==
    IF ~Returned(raw) THEN raw
    ELSE WithRawMetadata(d, raw.val, pre, Tail(Split(d, ",")))

\* a constructor that stores data[9] as the prefix of a NaN token as well
MScriptVar_nan_keeps_prefix(d) ==
    IF Len(d) < 10 THEN Raise("AssertionError")
    ELSE IF Slice(d, 2, 10) = NaNField THEN WithValue(d, Return(NaN), d[10])
    ELSE WithValue(d, decode_value(Slice(d, 2, 9)), d[10])

\* MScriptVar.__init__(data): the object built, or the exception raised.
\* `assert len(data) >= 10` is modelled as executed (the interpreter's default
\* mode); with asserts stripped a shorter token raises as well, from int() or
\* from data[9].
MScriptVar(d) ==
    IF Len(d) < 10 THEN Raise("AssertionError")
    ELSE IF Slice(d, 2, 10) = NaNField THEN WithValue(d, Return(NaN), " ")
    ELSE WithValue(d, decode_value(Slice(d, 2, 9)), d[10])

\* property MScriptVar.type
type(v) == get_variable_type(v.id)

\* property MScriptVar.si_prefix_factor: the exponent of the factor
si_prefix_factor(v) ==
    IF v.si_prefix \in DOMAIN SI_PREFIX_FACTOR
    THEN Return(SI_PREFIX_FACTOR[v.si_prefix])
    ELSE Raise("KeyError")

\* raw_value * factor, kept as the two factors (nan * factor is nan)
Scaled(raw, f) ==
    IF ~Returned(f) THEN f
    ELSE IF raw.nan THEN Return([nan |-> TRUE, mant |-> 0, exp10 |-> 0])
    ELSE Return([nan |-> FALSE, mant |-> raw.n, exp10 |-> f.val])

\* property MScriptVar.value
value(v) == Scaled(v.raw_value, si_prefix_factor(v))

----------------------------------------------------------------------------
(* Module-level functions *)

None == [none |-> TRUE, vars |-> << >>]

List(vs) == [none |-> FALSE, vars |-> vs]

\* `if package:` -- None and the empty list are falsy
Truthy(p) == ~p.none /\ p.vars /= << >>

RECURSIVE DecodeAll(_, _)
\* the comprehension goes on with the next segment unless MScriptVar raised
DecodeNext(v, rest, acc) ==
    IF Returned(v) THEN DecodeAll(rest, Append(acc, v.val)) ELSE v

\* [MScriptVar(var) for var in segs]: the first exception ends the comprehension
DecodeAll(segs, acc) ==
    IF segs = << >> THEN Return(List(acc))
    ELSE DecodeNext(MScriptVar(Head(segs)), Tail(segs), acc)

parse_mscript_data_package(l) ==
    IF StartsWith(l, "P") /\ EndsWith(l, "\n")
    THEN DecodeAll(Split(Slice(l, 1, Len(l) - 1), ";"), << >>)
    ELSE Return(None)

\* `line and line[0] in "+*-"`
IsTerminator(l) == l /= << >> /\ l[1] \in {"+", "*", "-"}

\* s[k] of a Python list: a negative k counts from the end
ListIndex(s, k) ==
    IF 0 <= k /\ k < Len(s) THEN Return(s[k + 1])
    ELSE IF k < 0 /\ -k <= Len(s) THEN Return(s[Len(s) + k + 1])
    ELSE Raise("IndexError")

\* `.value` of the indexed variable, unless the index raised
ValueOf(c) == IF Returned(c) THEN value(c.val) ELSE c

\* row[column].value
CellValue(row, column) == ValueOf(ListIndex(row, column))

RECURSIVE RowValues(_, _, _)
RowNext(c, rest, column, acc) ==
    IF Returned(c) THEN RowValues(rest, column, Append(acc, c.val)) ELSE c

\* the values of the rows of one curve, in row order, up to the first exception
RowValues(rows, column, acc) ==
    IF rows = << >> THEN Return(acc)
    ELSE RowNext(CellValue(Head(rows), column), Tail(rows), column, acc)

RECURSIVE ExtendAll_last_curve_first(_, _, _)
CurveNext_last_curve_first(r, rest, column) ==
    IF Returned(r) THEN ExtendAll_last_curve_first(rest, column, r.val) ELSE r

\* the loop over the curves running from the last curve to the first
ExtendAll_last_curve_first(cs, column, acc) ==
    IF cs = << >> THEN Return(acc)
    ELSE CurveNext_last_curve_first(RowValues(cs[Len(cs)], column, acc),
                                    SubSeq(cs, 1, Len(cs) - 1), column)

RECURSIVE ExtendAll(_, _, _)
CurveNext(r, rest, column) ==
    IF Returned(r) THEN ExtendAll(rest, column, r.val) ELSE r

\* for curve in curves: values.extend(row[column].value for row in curve)
ExtendAll(cs, column, acc) ==
    IF cs = << >> THEN Return(acc)
    ELSE CurveNext(RowValues(Head(cs), column, acc), Tail(cs), column)

NoCurve == [given |-> FALSE, k |-> 0]

Curve(k) == [given |-> TRUE, k |-> k]

\* [row[column].value for row in curves[icurve]], unless curves[icurve] raised
SelectedValues(c, column) ==
    IF Returned(c) THEN RowValues(c.val, column, << >>) ELSE c

get_values_by_column(cs, column, icurve) ==
    IF ~icurve.given
    THEN ExtendAll(cs, column, << >>)
    ELSE SelectedValues(ListIndex(cs, icurve.k), column)

----------------------------------------------------------------------------
(* Inputs *)

MaxMeta == 2

MaxVars == 2

MaxLines == 5

MaxDirtyLines == 3

MaxColLines == 5

SeqsUpTo(S, n) == UNION {[1..k -> S] : k \in 0..n}

RECURSIVE Join(_, _)
\* sep.join(parts)
Join(parts, sep) ==
    IF parts = << >> THEN << >>
    ELSE IF Len(parts) = 1 THEN parts[1]
    ELSE parts[1] \o << sep >> \o Join(Tail(parts), sep)

SampleIds == {<<"a", "a">>, <<"b", "a">>, <<"j", "a">>, <<"z", "z">>, <<"q", "1">>}

\* 7-digit value fields: every hex digit, in both cases, occurs at some position
HexFields ==
    {<<d1, d2, d3, d4, d5, d6, d7>> :
        d1 \in {"0", "7", "8", "f"}, d2 \in {"1", "9"}, d3 \in {"2", "a"},
        d4 \in {"3", "B"}, d5 \in {"4", "c"}, d6 \in {"5", "D"},
        d7 \in {"6", "e", "F"}}

\* 7-character value fields that are not seven hex digits
OddFields ==
    { <<" ", "0", "0", "0", "0", "1", "f">>, <<"0", "0", "0", "0", "1", "f", " ">>,
      <<"-", "0", "0", "0", "0", "1", "f">>, <<"+", "0", "0", "0", "0", "1", "f">>,
      <<"0", "x", "0", "0", "0", "1", "f">>, <<"0", "0", "_", "0", "0", "1", "f">>,
      <<"_", "0", "0", "0", "0", "1", "f">>, <<"0", "0", "0", "0", "0", "g", "0">>,
      <<"0", "0", "0", "0", " ", "1", "f">>, <<" ", " ", " ", " ", " ", " ", " ">>,
      <<" ", " ", " ", " ", " ", "n", "a">> }

PrefixSample == {" ", "n", "i", "X", "0", ","}

MetaSample ==
    { <<"1", "0">>, <<"1", "f">>, <<"1", "g">>, <<"1", "_">>, <<"1">>, << >>,
      <<"2", "0", "a">>, <<"2", "F", "F">>, <<"2", "-", "1">>, <<"2", " ", "1">>,
      <<"2", "g", "0">>, <<"2", "a">>, <<"1", "0", "0">>, <<"3", "0", "a">> }

GoodToken == <<"b", "a", "8", "0", "0", "0", "0", "0", "1", "n">>

NaNToken == <<"b", "a">> \o NaNField

PlainTokens ==
    {id \o h \o << p >> : id \in SampleIds, h \in HexFields, p \in DOMAIN SI_PREFIX_FACTOR}

OddTokens ==
    {id \o h \o << p >> :
        id \in {<<"b", "a">>, <<"z", "z">>}, h \in OddFields \cup {SubSeq(GoodToken, 3, 9)},
        p \in PrefixSample}

ShortTokens == {SubSeq(GoodToken, 1, k) : k \in 0..9}

MetaTokens ==
    {Join(<< t >> \o m, ",") :
        t \in {GoodToken, NaNToken}, m \in SeqsUpTo(MetaSample, MaxMeta) \ {<< >>}}

TokenSet ==
    PlainTokens \cup OddTokens \cup ShortTokens \cup MetaTokens
        \cup {id \o NaNField : id \in SampleIds}

\* tokens of the lines below
TokTime == <<"e", "b", "8", "0", "0", "0", "0", "0", "1", " ">>

TokPot == <<"d", "a", "8", "0", "0", "0", "0", "0", "2", "m">>

TokCur == <<"b", "a", "7", "F", "F", "F", "F", "F", "F", "n", ",", "1", "0", ",", "2", "0", "a">>

TokBadPrefix == <<"b", "a", "8", "0", "0", "0", "0", "0", "3", "X">>

TokBadHex == <<"b", "a", "8", "0", "0", "0", "0", "g", "0", "n">>

TokShort == <<"b", "a", "1", "2">>

PackageLine(tokens) == << "P" >> \o Join(tokens, ";") \o << "\n" >>

LineA == PackageLine(<< TokTime >>)

LineB == PackageLine(<< TokPot, TokCur >>)

LineBadPrefix == PackageLine(<< TokBadPrefix >>)

LineBadHex == PackageLine(<< TokTime, TokBadHex >>)

LineShort == PackageLine(<< TokShort >>)

LineEmptyPackage == PackageLine(<< >>)

LineNoNewline == << "P" >> \o TokTime

LineStar == <<"*", "\n">>

LinePlus == <<"+", "\n">>

LineMinus == <<"-", "\n">>

LineJunk == <<"e", "\n">>

\* inputs of parse_result_lines made of lines no call raises on
LineSet == {LineA, LineB, LineStar, LinePlus, LineMinus, LineJunk}

\* ... and of lines the device should not send
DirtyLineSet ==
    LineSet \cup {LineBadHex, LineShort, LineEmptyPackage, LineBadPrefix,
                  LineNoNewline, << >>}

ColumnLineSet == {LineA, LineB, LineBadPrefix, LineStar}

PackageTokens == {TokTime, TokCur, TokBadPrefix, TokBadHex, TokShort, NaNToken, << >>}

PackageLineSet ==
    {start \o Join(ts, ";") \o end :
        start \in {<< "P" >>, << >>, << "*" >>},
        ts \in SeqsUpTo(PackageTokens, MaxVars),
        end \in {<< "\n" >>, << >>, << "\r" >>}}

Columns == -2..2

CurveChoices == {NoCurve} \cup {Curve(k) : k \in -1..2}

----------------------------------------------------------------------------
(* emstatpico.py: Info.limits *)

\* a Python float is a number or nan ([nan, n], as raw_value above); an
\* ordering comparison with nan is False
Less(a, b) == ~a.nan /\ ~b.nan /\ a.n < b.n

\* Info.limits(val, low, high, label, units); label and units only go into
\* the message of the ValueError
limits(v, lo, hi) ==
    IF Less(v, lo) \/ Less(hi, v) THEN Raise("ValueError") ELSE Return(TRUE)

----------------------------------------------------------------------------
(* pico_serial.py: port detection *)

\* s.startswith(p)
HasPrefix(s, p) == Len(s) >= Len(p) /\ SubSeq(s, 1, Len(p)) = p

\* _is_mscript_device(port)
is_mscript_device(p) ==
    \/ p.description = <<"E", "m", "S", "t", "a", "t", "4">>
    \/ HasPrefix(p.description, <<"E", "S", "P", "i", "c", "o", "D", "e", "v">>)
    \/ HasPrefix(p.description, <<"S", "e", "n", "s", "i", "t", "B", "T">>)
    \/ HasPrefix(p.description, <<"S", "e", "n", "s", "i", "t", "S", "m", "a", "r", "t">>)
    \/ HasPrefix(p.description, <<"E", "m", "S", "t", "a", "t", "4", " ", "L", "R", " ", "(", "C", "O", "M">>)
    \/ HasPrefix(p.description, <<"E", "m", "S", "t", "a", "t", "4", " ", "H", "R", " ", "(", "C", "O", "M">>)
    \/ HasPrefix(p.description, <<"M", "u", "l", "t", "i", "E", "m", "S", "t", "a", "t", "4", " ", "L", "R", " ", "(", "C", "O", "M">>)
    \/ HasPrefix(p.description, <<"M", "u", "l", "t", "i", "E", "m", "S", "t", "a", "t", "4", " ", "H", "R", " ", "(", "C", "O", "M">>)
    \/ HasPrefix(p.description, <<"U", "S", "B", " ", "S", "e", "r", "i", "a", "l", " ", "P", "o", "r", "t">>)

\* ... as it would be if several candidates were tolerated
OnlyCandidate_first_of_many(candidates) ==
    IF Len(candidates) = 0 THEN Raise("Exception") ELSE Return(candidates[1].device)

\* the tail of auto_detect_port, once the loop has filled `candidates`
OnlyCandidate(candidates) ==
    IF Len(candidates) /= 1 THEN Raise("Exception") ELSE Return(candidates[1].device)

\* auto_detect_port(), ps being what comports() enumerates
auto_detect_port(ps) == OnlyCandidate(SelectSeq(ps, is_mscript_device))

----------------------------------------------------------------------------
(* pico_serial.py: class Serial.  The pyserial object is the record         *)
(* [port, is_open, calls, delivered]: calls lists the methods called on it  *)
(* and delivered the bytes its readline() handed back, in order.  What the  *)
(* device does is an input of each operation: ok says whether the port      *)
(* answers, b is what readline() has to deliver (empty on timeout).         *)

SerialException == "SerialException"

Called(c, op) == [c EXCEPT !.calls = Append(@, op)]

Went(c) == [exc |-> "", conn |-> c]

Failed(c) == [exc |-> SerialException, conn |-> c]

\* Serial.__init__(port, timeout): the port is set, not opened
Serial(p) == [port |-> p, is_open |-> FALSE, calls |-> << >>, delivered |-> << >>]

\* Serial.open(): pyserial refuses to open an open port
Serial_open(c, ok) ==
    IF c.is_open \/ ~ok
    THEN Failed(Called(c, "open"))
    ELSE Went([Called(c, "open") EXCEPT !.is_open = TRUE])

\* Serial.close()
Serial_close(c) == [Called(c, "close") EXCEPT !.is_open = FALSE]

\* Serial.write(data)
Serial_write(c, ok) ==
    IF c.is_open /\ ok THEN Went(Called(c, "write")) ELSE Failed(Called(c, "write"))

\* ... as it would be if the line ending were stripped off what was read
Serial_readline_strips(c, b, ok) ==
    IF c.is_open /\ ok
    THEN [exc |-> "", val |-> RStrip(b),
          conn |-> [Called(c, "readline") EXCEPT !.delivered = Append(@, b)]]
    ELSE Failed(Called(c, "readline"))

\* ... as it would be if a timeout were an error
Serial_readline_timeout_raises(c, b, ok) ==
    IF c.is_open /\ ok
    THEN [exc |-> IF b = << >> THEN SerialException ELSE "", val |-> b,
          conn |-> [Called(c, "readline") EXCEPT !.delivered = Append(@, b)]]
    ELSE Failed(Called(c, "readline"))

\* Serial.readline(): the bytes of one line, or none on timeout
Serial_readline(c, b, ok) ==
    IF c.is_open /\ ok
    THEN [exc |-> "", val |-> b,
          conn |-> [Called(c, "readline") EXCEPT !.delivered = Append(@, b)]]
    ELSE Failed(Called(c, "readline"))

\* ... as it would be if the port were opened whatever its state
Serial_enter_always_opens(c, ok) == Serial_open(c, ok)

\* Serial.__enter__()
Serial_enter(c, ok) == IF ~c.is_open THEN Serial_open(c, ok) ELSE Went(c)

\* ... as it would be if the port were closed on a normal exit only
Serial_exit_on_return_only(c, exc_type) ==
    IF exc_type = "" THEN Serial_close(c) ELSE c

\* Serial.__exit__(exc_type, exc_value, traceback)
Serial_exit(c, exc_type) == Serial_close(c)

----------------------------------------------------------------------------
(* pico_instrument.py: class Instrument.  potentiostat.py imports it and    *)
(* tests/test_pico_instrument.py exercises it, but the repository files at  *)
(* hand do not include it: the driver is written from section 4.8 of the    *)
(* specification and from that test file.                                   *)

\* the end-of-measurement marker
EndMarker == <<"*">>

\* a line equal to the marker, its line ending apart
IsEndOfMeasurement(l) == RStrip(l) = EndMarker

\* empty reads in a row that end readlines_until_end
EmptyReadsToStop == 2

RECURSIVE send_script(_, _, _)
RECURSIVE SendNext(_, _, _)
\* send_script(path): the n lines of the script are written one by one; the
\* port takes k of them before it fails
send_script(c, n, k) ==
    IF n = 0 THEN Went(c) ELSE SendNext(Serial_write(c, k > 0), n, k)

SendNext(r, n, k) == IF r.exc /= "" THEN r ELSE send_script(r.conn, n - 1, k - 1)

----------------------------------------------------------------------------
(* Inputs of the transport scenarios *)

\* lines of the script sent to the device
ScriptLines == 2

\* reads of one readlines_until_end
MaxReads == 4

\* ports comports() enumerates
MaxPorts == 2

\* operations in the body of one with block
MaxBody == 2

\* with blocks of one program
MaxBlocks == 2

NoPort == [none |-> TRUE, name |-> << >>]

PortName(p) == [none |-> FALSE, name |-> p]

emstatpico == <<"e", "m", "s", "t", "a", "t", "p", "i", "c", "o">>

ModelSample == {emstatpico, <<"c", "h", "i", "7", "6", "0", "e">>, <<"0">>}

DeviceNames == << <<"C", "O", "M", "1">>, <<"C", "O", "M", "2">>, <<"C", "O", "M", "3">> >>

PortChoices == {NoPort, PortName(DeviceNames[1]), PortName(DeviceNames[3])}

DescriptionSample ==
    {<<"E", "m", "S", "t", "a", "t", "4">>, <<"E", "m", "S", "t", "a", "t", "4", " ", "B", "o", "o", "t", "l", "o", "a", "d", "e", "r">>, <<"E", "m", "S", "t", "a", "t", "4", " ", "L", "R">>, <<"E", "S", "P", "i", "c", "o", "D", "e", "v">>, <<"E", "S", "P", "i", "c", "o", "D", "e", "v", " ", "1">>,
     <<"S", "e", "n", "s", "i", "t", "B", "T">>, <<"S", "e", "n", "s", "i", "t", "S", "m", "a", "r", "t", " ", "2">>, <<"E", "m", "S", "t", "a", "t", "4", " ", "L", "R", " ", "(", "C", "O", "M", "3", ")">>, <<"E", "m", "S", "t", "a", "t", "4", " ", "H", "R", " ", "(", "C", "O", "M", "4", ")">>,
     <<"M", "u", "l", "t", "i", "E", "m", "S", "t", "a", "t", "4", " ", "L", "R", " ", "(", "C", "O", "M", "5", ")">>, <<"M", "u", "l", "t", "i", "E", "m", "S", "t", "a", "t", "4", " ", "H", "R", " ", "(", "C", "O", "M", "6", ")">>, <<"M", "u", "l", "t", "i", "E", "m", "S", "t", "a", "t", "4">>,
     <<"U", "S", "B", " ", "S", "e", "r", "i", "a", "l", " ", "P", "o", "r", "t", " ", "(", "C", "O", "M", "7", ")">>, <<"U", "S", "B", " ", "S", "e", "r", "i", "a", "l", " ", "D", "e", "v", "i", "c", "e">>, <<"e", "m", "s", "t", "a", "t", "4">>, <<"n", "/", "a">>, << >>}

\* the k-th enumerated port carries the k-th device name
PortsOf(ds) == [k \in 1..Len(ds) |-> [device |-> DeviceNames[k], description |-> ds[k]]]

PortLists == {PortsOf(ds) : ds \in SeqsUpTo(DescriptionSample, MaxPorts)}

RunPortLists ==
    {PortsOf(<< <<"n", "/", "a">> >>), PortsOf(<< <<"n", "/", "a">>, <<"E", "S", "P", "i", "c", "o", "D", "e", "v">> >>),
     PortsOf(<< <<"E", "m", "S", "t", "a", "t", "4">>, <<"E", "S", "P", "i", "c", "o", "D", "e", "v">> >>)}

LineStarCR == <<"*", "\r", "\n">>

LineStarred == <<"*", "x", "\n">>

\* what readline() may deliver: nothing (timeout) or a line
RxSample == {<< >>, LineA, LineStar, LineStarCR, LineStarred, <<"\n">>}

Floats == {NaN} \cup {IntVal(n) : n \in -2..2}

----------------------------------------------------------------------------
(* potentiostat.py: the technique wrappers CV, LSV, CA, OCP, NPV, EIS and    *)
(* Technique.bipot.  A wrapper is the record [cls, selected, tech, init,    *)
(* text, technique, bpot]: selected lists the models whose branch was       *)
(* taken, tech is the model-specific object, init says whether              *)
(* Technique.__init__ ran (without it the attributes text, technique and    *)
(* bpot do not exist).  A script is kept as what it was built from.  A call *)
(* in progress is [exc, obj, out], out being what it printed.               *)

chi1205b == <<"c", "h", "i", "1", "2", "0", "5", "b">>

chi1242b == <<"c", "h", "i", "1", "2", "4", "2", "b">>

chi601e == <<"c", "h", "i", "6", "0", "1", "e">>

chi760e == <<"c", "h", "i", "7", "6", "0", "e">>

models_available == <<chi1205b, chi1242b, chi601e, chi760e, emstatpico>>

\* the if/elif chains of <Class>.__init__ in the order of the code; the last
\* chain of a class is the one that ends with the else branch
Chains(cls) ==
    IF cls \in {"CV", "LSV", "CA", "OCP"}
    THEN << << chi601e >>, <<chi760e, chi1205b, chi1242b, emstatpico>> >>
    ELSE IF cls = "NPV" THEN << <<chi760e, chi601e>> >>
    ELSE << <<chi760e, emstatpico>> >>

\* the classes of chi760e.py, chi1242b.py and emstatpico.py with a bipot method
HasBipot(model, cls) ==
    model \in {chi760e, chi1242b, emstatpico} /\ cls \in {"CV", "LSV", "CA"}

\* the text of a model-specific object
Script(model, cls, with_bipot) == [model |-> model, cls |-> cls, bipot |-> with_bipot]

NoBuilder == [model |-> << >>, cls |-> "", text |-> Script(<< >>, "", FALSE), bipots |-> 0]

\* <module>.<Class>(...): the object with its script
Builder(model, cls) ==
    [model |-> model, cls |-> cls, text |-> Script(model, cls, FALSE), bipots |-> 0]

NewWrapper(cls) ==
    [cls |-> cls, selected |-> << >>, tech |-> NoBuilder, init |-> FALSE,
     text |-> Script(<< >>, "", FALSE), technique |-> "", bpot |-> FALSE]

\* print(...)
Stdout(st, msg) == [st EXCEPT !.out = Append(@, msg)]

DoesNotHave(model, cls) == [msg |-> "does not have", model |-> model, technique |-> cls]

NoBipotMode(technique) ==
    [msg |-> "does not have bipotentiostat mode", model |-> << >>, technique |-> technique]

\* the body of a branch: the model-specific object is built, which raises on
\* parameters outside its limits, then Technique.__init__ and self.technique
Select(st, model, valid) ==
    IF ~valid
    THEN [st EXCEPT !.exc = "ValueError", !.obj.selected = Append(@, model)]
    ELSE [st EXCEPT !.obj.selected = Append(@, model),
                    !.obj.tech = Builder(model, st.obj.cls),
                    !.obj.init = TRUE,
                    !.obj.text = Script(model, st.obj.cls, FALSE),
                    !.obj.technique = st.obj.cls,
                    !.obj.bpot = FALSE]

RECURSIVE RunChains(_, _, _, _)
\* the chains one after the other; an exception ends __init__
RunChains(st, chains, model, valid) ==
    IF chains = << >> \/ st.exc /= "" THEN st
    ELSE IF \E k \in 1..Len(Head(chains)) : Head(chains)[k] = model
    THEN RunChains(Select(st, model, valid), Tail(chains), model, valid)
    ELSE IF Len(chains) = 1 THEN Stdout(st, DoesNotHave(model, st.obj.cls))
    ELSE RunChains(st, Tail(chains), model, valid)

\* <Class>.__init__(...) under the global model_pstat
Wrapper(cls, model, valid) ==
    RunChains([exc |-> "", obj |-> NewWrapper(cls), out |-> << >>], Chains(cls), model, valid)

\* `self.tech.bipot(E, sens); self.text = self.tech.text; self.bpot = True`
EnableBipot(st, valid) ==
    IF ~HasBipot(st.obj.tech.model, st.obj.tech.cls) THEN [st EXCEPT !.exc = "AttributeError"]
    ELSE IF ~valid THEN [st EXCEPT !.exc = "ValueError"]
    ELSE [st EXCEPT !.obj.tech.text = Script(st.obj.tech.model, st.obj.tech.cls, TRUE),
                    !.obj.tech.bipots = @ + 1,
                    !.obj.text = Script(st.obj.tech.model, st.obj.tech.cls, TRUE),
                    !.obj.bpot = TRUE]

\* lines 318-329: `if chi760e`, then `if chi1242b ... elif emstatpico`
BipotSecond(st, model, valid) ==
    IF st.exc /= "" THEN st
    ELSE IF model = chi1242b THEN EnableBipot(st, valid)
    ELSE IF model = emstatpico THEN EnableBipot(st, valid)
    ELSE st

BipotByModel(st, model, valid) ==
    BipotSecond(IF model = chi760e THEN EnableBipot(st, valid) ELSE st, model, valid)

\* a bipot that does not look at the technique
bipot_any_technique(o, model, valid) ==
    IF ~o.init THEN [exc |-> "AttributeError", obj |-> o, out |-> << >>]
    ELSE BipotByModel([exc |-> "", obj |-> o, out |-> << >>], model, valid)

\* Technique.bipot(E, sens) on the wrapper o; valid says whether E is within
\* the limits of the model
bipot(o, model, valid) ==
    IF ~o.init THEN [exc |-> "AttributeError", obj |-> o, out |-> << >>]
    ELSE IF o.technique /= "OCP" /\ o.technique /= "EIS"
    THEN BipotByModel([exc |-> "", obj |-> o, out |-> << >>], model, valid)
    ELSE Stdout([exc |-> "", obj |-> o, out |-> << >>], NoBipotMode(o.technique))

\* calls of bipot on one wrapper
MaxBipot == 2

WrapperClasses == {"CV", "LSV", "CA", "OCP", "NPV", "EIS"}

\* the models Setup is given: those of the library and one it does not have
TechModels == {models_available[k] : k \in 1..Len(models_available)} \cup {<<"0">>}

NotCalled == [op |-> "none", exc |-> "", count |-> 0]

----------------------------------------------------------------------------
(* The variables of a scenario that does not run are kept at these values *)

IdlePure == first = Unset

IdleRun ==
    /\ model_pstat = << >> /\ port_ = Unset /\ port = Unset /\ ports = << >>
    /\ connection = Unset /\ trace = << >> /\ state = "none"
    /\ received = << >> /\ empties = 0 /\ run = Unset /\ pcr = "idle"

IdleDetect == detected = Unset

IdleSerial == pcs = "idle"

IdleLimits == val = NaN /\ low = NaN /\ high = NaN /\ within = Unset

IdleTech == wrapper = Unset /\ stdout = << >> /\ called = NotCalled /\ pct = "idle"

IdleIO == IdlePure /\ IdleRun /\ IdleDetect /\ IdleSerial /\ IdleLimits /\ IdleTech

----------------------------------------------------------------------------
(* Scenario 1: one token is decoded, then a property of the variable is read *)

IdleVar == data = << >> /\ var = Unset /\ prop = Unset /\ pcv = "idle"

IdlePackage == line = << >> /\ package = Unset /\ pcp = "idle"

IdleParse ==
    /\ lines = << >> /\ idx = 0 /\ curves = << >> /\ current_curve = << >>
    /\ result = Unset /\ values = Unset /\ pc = "idle"

InitVar ==
    /\ data \in TokenSet
    /\ var = Unset /\ prop = Unset /\ pcv = "new"
    /\ IdlePackage /\ IdleParse /\ IdleIO

\* v = MScriptVar(data)
Construct ==
    /\ pcv = "new"
    /\ var' = MScriptVar(data)
    /\ pcv' = IF Returned(var') THEN "built" ELSE "raised"
    /\ UNCHANGED <<data, prop>>
    /\ UNCHANGED varsPackage /\ UNCHANGED varsParse
    /\ UNCHANGED varsIO

\* v.value
ReadValue ==
    /\ pcv = "built"
    /\ prop' = value(var.val)
    /\ pcv' = "value"
    /\ UNCHANGED <<data, var>>
    /\ UNCHANGED varsPackage /\ UNCHANGED varsParse
    /\ UNCHANGED varsIO

\* v.type
ReadType ==
    /\ pcv = "built"
    /\ prop' = Return(type(var.val))
    /\ pcv' = "type"
    /\ UNCHANGED <<data, var>>
    /\ UNCHANGED varsPackage /\ UNCHANGED varsParse
    /\ UNCHANGED varsIO

NextVar == Construct \/ ReadValue \/ ReadType

SpecVar == InitVar /\ [][NextVar]_vars

----------------------------------------------------------------------------
(* Scenario 2: one line is handed to parse_mscript_data_package *)

InitPackage ==
    /\ line \in PackageLineSet
    /\ package = Unset /\ pcp = "new"
    /\ IdleVar /\ IdleParse /\ IdleIO

ParsePackage ==
    /\ pcp = "new"
    /\ package' = parse_mscript_data_package(line)
    /\ pcp' = IF Returned(package') THEN "returned" ELSE "raised"
    /\ UNCHANGED line
    /\ UNCHANGED varsVar /\ UNCHANGED varsParse
    /\ UNCHANGED varsIO

NextPackage == ParsePackage

SpecPackage == InitPackage /\ [][NextPackage]_vars

----------------------------------------------------------------------------
(* Scenario 3: parse_result_lines, one iteration of its loop per step, and  *)
(* get_values_by_column on what it returned                                 *)

InitLines(S, n) ==
    /\ lines \in SeqsUpTo(S, n)
    /\ idx = 0 /\ curves = << >> /\ current_curve = << >>
    /\ result = Unset /\ values = Unset /\ pc = "loop"
    /\ IdleVar /\ IdlePackage /\ IdleIO

InitParse == InitLines(LineSet, MaxLines)

InitDirty == InitLines(DirtyLineSet, MaxDirtyLines)

InitColumn == InitLines(ColumnLineSet, MaxColLines)

\* the terminator branch without `current_curve = []`
EndOfCurve_keeps_accumulator ==
    /\ pc = "loop" /\ idx < Len(lines)
    /\ IsTerminator(lines[idx + 1])
    /\ IF current_curve /= << >>
       THEN curves' = Append(curves, current_curve) /\ UNCHANGED current_curve
       ELSE UNCHANGED <<curves, current_curve>>
    /\ idx' = idx + 1
    /\ UNCHANGED <<lines, result, values, pc>>
    /\ UNCHANGED varsVar /\ UNCHANGED varsPackage
    /\ UNCHANGED varsIO

\* the terminator branch without `if current_curve:`
EndOfCurve_appends_always ==
    /\ pc = "loop" /\ idx < Len(lines)
    /\ IsTerminator(lines[idx + 1])
    /\ curves' = Append(curves, current_curve) /\ current_curve' = << >>
    /\ idx' = idx + 1
    /\ UNCHANGED <<lines, result, values, pc>>
    /\ UNCHANGED varsVar /\ UNCHANGED varsPackage
    /\ UNCHANGED varsIO

\* the branch `if line and line[0] in "+*-"` of the loop body
EndOfCurve ==
    /\ pc = "loop" /\ idx < Len(lines)
    /\ IsTerminator(lines[idx + 1])
    /\ IF current_curve /= << >>
       THEN curves' = Append(curves, current_curve) /\ current_curve' = << >>
       ELSE UNCHANGED <<curves, current_curve>>
    /\ idx' = idx + 1
    /\ UNCHANGED <<lines, result, values, pc>>
    /\ UNCHANGED varsVar /\ UNCHANGED varsPackage
    /\ UNCHANGED varsIO

\* lines 443-446, or the exception of line 442 leaving parse_result_lines
AfterPackage(p) ==
    IF ~Returned(p)
    THEN /\ result' = p /\ pc' = "raised"
         /\ UNCHANGED <<idx, curves, current_curve>>
    ELSE /\ current_curve' = IF Truthy(p.val)
                             THEN Append(current_curve, p.val.vars)
                             ELSE current_curve
         /\ idx' = idx + 1
         /\ UNCHANGED <<curves, result, pc>>

\* the else branch of the loop body
DataLine ==
    /\ pc = "loop" /\ idx < Len(lines)
    /\ ~IsTerminator(lines[idx + 1])
    /\ AfterPackage(parse_mscript_data_package(lines[idx + 1]))
    /\ UNCHANGED <<lines, values>>
    /\ UNCHANGED varsVar /\ UNCHANGED varsPackage
    /\ UNCHANGED varsIO

\* a return that flushes the accumulator at the end of the input
ParseReturn_flushes ==
    /\ pc = "loop" /\ idx = Len(lines)
    /\ result' = Return(IF current_curve /= << >>
                        THEN Append(curves, current_curve) ELSE curves)
    /\ pc' = "returned"
    /\ UNCHANGED <<lines, idx, curves, current_curve, values>>
    /\ UNCHANGED varsVar /\ UNCHANGED varsPackage
    /\ UNCHANGED varsIO

\* `return curves` once the loop is exhausted
ParseReturn ==
    /\ pc = "loop" /\ idx = Len(lines)
    /\ result' = Return(curves)
    /\ pc' = "returned"
    /\ UNCHANGED <<lines, idx, curves, current_curve, values>>
    /\ UNCHANGED varsVar /\ UNCHANGED varsPackage
    /\ UNCHANGED varsIO

\* get_values_by_column(result, column, icurve); np.asarray keeps the order
GetValues ==
    /\ pc = "returned"
    /\ \E column \in Columns, icurve \in CurveChoices :
          values' = [column |-> column, icurve |-> icurve,
                     out |-> get_values_by_column(result.val, column, icurve)]
    /\ pc' = "projected"
    /\ UNCHANGED <<lines, idx, curves, current_curve, result>>
    /\ UNCHANGED varsVar /\ UNCHANGED varsPackage
    /\ UNCHANGED varsIO

NextParse == EndOfCurve \/ DataLine \/ ParseReturn

NextColumn == NextParse \/ GetValues

Spec == InitParse /\ [][NextParse]_vars

SpecDirty == InitDirty /\ [][NextParse]_vars

SpecColumn == InitColumn /\ [][NextColumn]_vars

----------------------------------------------------------------------------
(* Scenario 4: parse_result_lines is called, and called again once it has   *)
(* returned                                                                 *)

\* lines of one input
MaxPureLines == 3

PureLineSet == {LineA, LineB, LineStar}

InitPure == InitLines(PureLineSet, MaxPureLines)

\* a second call whose accumulators are those the first call left
CallAgain_keeps_locals ==
    /\ pc = "returned" /\ first = Unset
    /\ \E ls \in SeqsUpTo(PureLineSet, MaxPureLines) : lines' = ls
    /\ first' = Return([lines |-> lines, result |-> result])
    /\ idx' = 0 /\ result' = Unset /\ pc' = "loop"
    /\ UNCHANGED <<curves, current_curve, values>>
    /\ UNCHANGED varsVar /\ UNCHANGED varsPackage
    /\ UNCHANGED <<varsRun, varsDetect, varsSerial, varsLimits, varsTech>>

\* parse_result_lines(ls) once more: `curves = []`, `current_curve = []` and
\* the loop starts over
CallAgain ==
    /\ pc = "returned" /\ first = Unset
    /\ \E ls \in SeqsUpTo(PureLineSet, MaxPureLines) : lines' = ls
    /\ first' = Return([lines |-> lines, result |-> result])
    /\ idx' = 0 /\ curves' = << >> /\ current_curve' = << >>
    /\ result' = Unset /\ pc' = "loop"
    /\ UNCHANGED values
    /\ UNCHANGED varsVar /\ UNCHANGED varsPackage
    /\ UNCHANGED <<varsRun, varsDetect, varsSerial, varsLimits, varsTech>>

NextPure == NextParse \/ CallAgain

SpecPure == InitPure /\ [][NextPure]_vars

----------------------------------------------------------------------------
(* Scenario 5: Info.limits is called once *)

InitLimits ==
    /\ val \in Floats
    /\ low \in Floats \ {NaN} /\ high \in Floats \ {NaN}
    /\ within = Unset
    /\ IdleVar /\ IdlePackage /\ IdleParse
    /\ IdlePure /\ IdleRun /\ IdleDetect /\ IdleSerial /\ IdleTech

\* info.limits(val, low, high, label, units)
Limits ==
    /\ within = Unset
    /\ within' = limits(val, low, high)
    /\ UNCHANGED <<val, low, high>>
    /\ UNCHANGED varsVar /\ UNCHANGED varsPackage /\ UNCHANGED varsParse
    /\ UNCHANGED <<varsPure, varsRun, varsDetect, varsSerial, varsTech>>

NextLimits == Limits

SpecLimits == InitLimits /\ [][NextLimits]_vars

----------------------------------------------------------------------------
(* Scenario 6: auto_detect_port is called once on the enumerated ports *)

InitDetect ==
    /\ ports \in PortLists
    /\ detected = Unset
    /\ model_pstat = << >> /\ port_ = Unset /\ port = Unset
    /\ connection = Unset /\ trace = << >> /\ state = "none"
    /\ received = << >> /\ empties = 0 /\ run = Unset /\ pcr = "idle"
    /\ IdleVar /\ IdlePackage /\ IdleParse
    /\ IdlePure /\ IdleSerial /\ IdleLimits /\ IdleTech

\* auto_detect_port()
AutoDetect ==
    /\ detected = Unset
    /\ detected' = auto_detect_port(ports)
    /\ UNCHANGED varsVar /\ UNCHANGED varsPackage /\ UNCHANGED varsParse
    /\ UNCHANGED <<varsPure, varsRun, varsSerial, varsLimits, varsTech>>

NextDetect == AutoDetect

SpecDetect == InitDetect /\ [][NextDetect]_vars

----------------------------------------------------------------------------
(* Scenario 7: Setup(model, port=...) then Technique.run(), one blocking    *)
(* call per step                                                            *)

IdleOthers ==
    /\ IdleVar /\ IdlePackage /\ IdleParse
    /\ IdlePure /\ IdleDetect /\ IdleSerial /\ IdleLimits /\ IdleTech

UnchangedOthers ==
    /\ UNCHANGED varsVar /\ UNCHANGED varsPackage /\ UNCHANGED varsParse
    /\ UNCHANGED <<varsPure, varsDetect, varsSerial, varsLimits, varsTech>>

InitRun ==
    /\ model_pstat = <<"n", "o", " ", "p", "s", "t", "a", "t">> /\ port_ = Unset /\ port = Unset
    /\ ports = << >> /\ connection = Unset /\ trace = << >> /\ state = "none"
    /\ received = << >> /\ empties = 0 /\ run = Unset /\ pcr = "setup"
    /\ IdleOthers

\* Setup(model, path, folder, port, verbose)
Setup ==
    /\ pcr = "setup"
    /\ \E m \in ModelSample, p \in PortChoices : model_pstat' = m /\ port_' = p
    /\ pcr' = "ready"
    /\ UNCHANGED <<port, ports, connection, trace, state, received, empties, run>>
    /\ UnchangedOthers

\* run(): the branch on model_pstat, up to writeToFile(); the CHI branch
\* hands over to the CHI software and returns
Run ==
    /\ pcr = "ready"
    /\ IF Slice(model_pstat, 0, 3) = <<"c", "h", "i">>
       THEN /\ trace' = Append(trace, "writeToFile")
            /\ pcr' = "chi" /\ run' = Return(TRUE)
       ELSE IF model_pstat = emstatpico
       THEN /\ trace' = Append(trace, "writeToFile")
            /\ pcr' = "detect" /\ UNCHANGED run
       ELSE pcr' = "aborted" /\ run' = Return(TRUE) /\ UNCHANGED trace
    /\ UNCHANGED <<model_pstat, port_, port, ports, connection, state,
                   received, empties>>
    /\ UnchangedOthers

\* `self.port = serial.auto_detect_port()`, or the exception leaving run()
Detected(r) ==
    IF Returned(r)
    THEN port' = r /\ pcr' = "with" /\ UNCHANGED run
    ELSE run' = r /\ pcr' = "raised" /\ UNCHANGED port

\* `if port_ is None: self.port = serial.auto_detect_port()`
DetectPort ==
    /\ pcr = "detect"
    /\ IF port_ = NoPort
       THEN \E ps \in RunPortLists :
               /\ ports' = ps
               /\ trace' = Append(trace, "auto_detect_port")
               /\ Detected(auto_detect_port(ps))
       ELSE pcr' = "with" /\ UNCHANGED <<port, ports, trace, run>>
    /\ UNCHANGED <<model_pstat, port_, connection, state, received, empties>>
    /\ UnchangedOthers

\* the with statement once __enter__ has returned or raised
Entered(r) ==
    /\ connection' = r.conn
    /\ IF r.exc = "" THEN pcr' = "entered" /\ UNCHANGED run
                     ELSE run' = Raise(r.exc) /\ pcr' = "raised"

\* `with serial.Serial(self.port, 1) as comm:`; self.port is an attribute
\* only auto-detection sets
EnterWith ==
    /\ pcr = "with"
    /\ IF ~Returned(port)
       THEN /\ run' = Raise("AttributeError") /\ pcr' = "raised"
            /\ UNCHANGED <<connection, trace>>
       ELSE /\ trace' = Append(trace, "Serial")
            /\ \E ok \in BOOLEAN : Entered(Serial_enter(Serial(port.val), ok))
    /\ UNCHANGED <<model_pstat, port_, port, ports, state, received, empties>>
    /\ UnchangedOthers

\* a run() that reads without having sent the script
MakeInstrument_skips_script ==
    /\ pcr = "entered"
    /\ state' = "Idle" /\ pcr' = "sent"
    /\ trace' = Append(trace, "Instrument")
    /\ UNCHANGED <<model_pstat, port_, port, ports, connection, received, empties, run>>
    /\ UnchangedOthers

\* `dev = instrument.Instrument(comm)`
MakeInstrument ==
    /\ pcr = "entered"
    /\ state' = "Idle" /\ pcr' = "dev"
    /\ trace' = Append(trace, "Instrument")
    /\ UNCHANGED <<model_pstat, port_, port, ports, connection, received, empties, run>>
    /\ UnchangedOthers

\* send_script once its writes are done or one of them has raised
Sent(r) ==
    /\ connection' = r.conn
    /\ IF r.exc = ""
       THEN state' = "ScriptSent" /\ pcr' = "sent" /\ UNCHANGED run
       ELSE run' = Raise(r.exc) /\ pcr' = "exiting" /\ UNCHANGED state

\* `dev.send_script(folder_save + "/" + self.fileName + ".mscr")`
SendScript ==
    /\ pcr = "dev"
    /\ trace' = Append(trace, "send_script")
    /\ \E k \in 0..ScriptLines : Sent(send_script(connection, ScriptLines, k))
    /\ UNCHANGED <<model_pstat, port_, port, ports, received, empties>>
    /\ UnchangedOthers

\* `result = dev.readlines_until_end()`: the call, before its first read
StartRead ==
    /\ pcr = "sent"
    /\ trace' = Append(trace, "readlines_until_end")
    /\ received' = << >> /\ empties' = 0 /\ pcr' = "reading"
    /\ UNCHANGED <<model_pstat, port_, port, ports, connection, state, run>>
    /\ UnchangedOthers

\* one iteration of the loop of readlines_until_end, on what read_line
\* returned: an empty read counts towards the stop, a line is kept and
\* resets the count, the end marker ends the loop
AfterReadLine(r) ==
    /\ connection' = r.conn
    /\ IF r.exc /= ""
       THEN /\ run' = Raise(r.exc) /\ pcr' = "exiting"
            /\ UNCHANGED <<state, received, empties>>
       ELSE IF r.val = << >>
       THEN /\ empties' = empties + 1
            /\ IF empties + 1 >= EmptyReadsToStop
               THEN state' = "TimedOut" /\ pcr' = "read"
               ELSE UNCHANGED <<state, pcr>>
            /\ UNCHANGED <<received, run>>
       ELSE /\ empties' = 0
            /\ received' = Append(received, r.val)
            /\ IF IsEndOfMeasurement(r.val)
               THEN state' = "Completed" /\ pcr' = "read"
               ELSE state' = "Streaming" /\ UNCHANGED pcr
            /\ UNCHANGED run

\* readlines_until_end: read_line, then the loop body
ReadLine ==
    /\ pcr = "reading"
    /\ Len(connection.delivered) < MaxReads
    /\ \E b \in RxSample, ok \in BOOLEAN :
           AfterReadLine(Serial_readline(connection, b, ok))
    /\ UNCHANGED <<model_pstat, port_, port, ports, trace>>
    /\ UnchangedOthers

\* a with block that starts over when the read timed out
ExitWith_retries ==
    /\ pcr \in {"read", "exiting"}
    /\ connection' = Serial_exit(connection, IF pcr = "exiting" THEN run.exc ELSE "")
    /\ pcr' = IF pcr = "exiting" THEN "raised"
              ELSE IF state = "TimedOut" /\ Len(connection.delivered) < MaxReads
              THEN "dev" ELSE "parse"
    /\ UNCHANGED <<model_pstat, port_, port, ports, trace, state, received, empties, run>>
    /\ UnchangedOthers

\* the end of the with block: __exit__, then the exception goes on or run()
\* goes on with the lines
ExitWith ==
    /\ pcr \in {"read", "exiting"}
    /\ connection' = Serial_exit(connection, IF pcr = "exiting" THEN run.exc ELSE "")
    /\ pcr' = IF pcr = "exiting" THEN "raised" ELSE "parse"
    /\ UNCHANGED <<model_pstat, port_, port, ports, trace, state, received, empties, run>>
    /\ UnchangedOthers

\* a run() that saves before it parses
Finish_saves_first ==
    /\ pcr = "parse"
    /\ trace' = trace \o <<"Save", "parse_result_lines">>
    /\ run' = Return(TRUE) /\ pcr' = "done"
    /\ UNCHANGED <<model_pstat, port_, port, ports, connection, state, received, empties>>
    /\ UnchangedOthers

\* `self.data = mscript.parse_result_lines(result)`, Save, message and plot
Finish ==
    /\ pcr = "parse"
    /\ trace' = trace \o <<"parse_result_lines", "Save">>
    /\ run' = Return(TRUE) /\ pcr' = "done"
    /\ UNCHANGED <<model_pstat, port_, port, ports, connection, state, received, empties>>
    /\ UnchangedOthers

NextRun ==
    \/ Setup \/ Run \/ DetectPort \/ EnterWith \/ MakeInstrument \/ SendScript
    \/ StartRead \/ ReadLine \/ ExitWith \/ Finish

SpecRun == InitRun /\ [][NextRun]_vars

----------------------------------------------------------------------------
(* Scenario 8: a program builds a Serial, opens it itself or not, and uses  *)
(* it as the context manager of with blocks whose body writes and reads.    *)
(* trace holds one record per with block.                                   *)

InitSerial ==
    /\ pcs = "new"
    /\ model_pstat = << >> /\ port_ = Unset /\ port = Unset /\ ports = << >>
    /\ connection = Unset /\ trace = << >> /\ state = "none"
    /\ received = << >> /\ empties = 0 /\ run = Unset /\ pcr = "idle"
    /\ IdleVar /\ IdlePackage /\ IdleParse
    /\ IdlePure /\ IdleDetect /\ IdleLimits /\ IdleTech

UnchangedButSerial ==
    /\ UNCHANGED <<model_pstat, port_, port, ports, state, received, empties, run, pcr>>
    /\ UNCHANGED varsVar /\ UNCHANGED varsPackage /\ UNCHANGED varsParse
    /\ UNCHANGED <<varsPure, varsDetect, varsLimits, varsTech>>

\* comm = Serial(port, timeout)
SerialNew ==
    /\ pcs = "new"
    /\ \E k \in {1, 3} : connection' = Serial(DeviceNames[k])
    /\ pcs' = "made"
    /\ UNCHANGED trace
    /\ UnchangedButSerial

\* comm.open(), outside any with block
UserOpen ==
    /\ pcs = "made" /\ Len(trace) < MaxBlocks
    /\ IF connection.calls = << >> THEN TRUE
       ELSE connection.calls[Len(connection.calls)] /= "open"
    /\ \E ok \in BOOLEAN :
          /\ connection' = Serial_open(connection, ok).conn
          /\ pcs' = IF Serial_open(connection, ok).exc = "" THEN "made" ELSE "raised"
    /\ UNCHANGED trace
    /\ UnchangedButSerial

\* the with statement once __enter__ has returned or raised
BlockEntered(r) ==
    /\ connection' = r.conn
    /\ pcs' = IF r.exc = "" THEN "inside" ELSE "raised"
    /\ trace' = Append(trace, [was_open |-> connection.is_open,
                               before |-> Len(connection.calls),
                               entered |-> r.exc = "",
                               inside |-> Len(r.conn.calls),
                               exit |-> "none", leaving |-> 0, after |-> 0])

\* `with comm:`
BlockEnter ==
    /\ pcs = "made" /\ Len(trace) < MaxBlocks
    /\ \E ok \in BOOLEAN : BlockEntered(Serial_enter(connection, ok))
    /\ UnchangedButSerial

\* a write or a read in the body, which returns or raises
BlockStep(r) ==
    /\ connection' = r.conn
    /\ pcs' = IF r.exc = "" THEN "inside" ELSE "failing"

\* the body of the with block
BlockBody ==
    /\ pcs = "inside"
    /\ Len(connection.calls) - trace[Len(trace)].inside < MaxBody
    /\ \E ok \in BOOLEAN :
          \/ BlockStep(Serial_write(connection, ok))
          \/ \E b \in {<< >>, LineStar} : BlockStep(Serial_readline(connection, b, ok))
    /\ UNCHANGED trace
    /\ UnchangedButSerial

\* the block is left, by the end of its body or by the exception of a step
BlockExit ==
    /\ pcs \in {"inside", "failing"}
    /\ connection' = Serial_exit(connection, IF pcs = "failing" THEN SerialException ELSE "")
    /\ trace' = [trace EXCEPT ![Len(trace)] =
                    [@ EXCEPT !.exit = IF pcs = "failing" THEN "raise" ELSE "return",
                              !.leaving = Len(connection.calls),
                              !.after = Len(connection'.calls)]]
    /\ pcs' = IF pcs = "failing" THEN "raised" ELSE "made"
    /\ UnchangedButSerial

NextSerial == SerialNew \/ UserOpen \/ BlockEnter \/ BlockBody \/ BlockExit

SpecSerial == InitSerial /\ [][NextSerial]_vars

----------------------------------------------------------------------------
(* Scenario 9: Setup(model), then a technique wrapper is constructed and    *)
(* its bipot() is called                                                    *)

InitTech ==
    /\ model_pstat = <<"n", "o", " ", "p", "s", "t", "a", "t">>
    /\ wrapper = Unset /\ stdout = << >> /\ called = NotCalled /\ pct = "setup"
    /\ port_ = Unset /\ port = Unset /\ ports = << >>
    /\ connection = Unset /\ trace = << >> /\ state = "none"
    /\ received = << >> /\ empties = 0 /\ run = Unset /\ pcr = "idle"
    /\ IdleVar /\ IdlePackage /\ IdleParse
    /\ IdlePure /\ IdleDetect /\ IdleSerial /\ IdleLimits

UnchangedButTech ==
    /\ UNCHANGED <<port_, port, ports, connection, trace, state, received, empties, run, pcr>>
    /\ UNCHANGED varsVar /\ UNCHANGED varsPackage /\ UNCHANGED varsParse
    /\ UNCHANGED <<varsPure, varsDetect, varsSerial, varsLimits>>

\* Setup(model, verbose=...): with verbose, info() prints the setup
SetupTech ==
    /\ pct = "setup"
    /\ \E m \in TechModels, verbose \in BOOLEAN :
          /\ model_pstat' = m
          /\ stdout' = IF verbose
                       THEN Append(stdout, [msg |-> "Potentiostat model", model |-> m,
                                            technique |-> ""])
                       ELSE stdout
    /\ pct' = "ready"
    /\ UNCHANGED <<wrapper, called>>
    /\ UnchangedButTech

\* the constructor has returned or raised
Constructed(st) ==
    /\ wrapper' = st.obj
    /\ stdout' = stdout \o st.out
    /\ called' = [op |-> "init", exc |-> st.exc, count |-> 0]
    /\ pct' = IF st.exc = "" THEN "built" ELSE "raised"

\* CV(...), LSV(...), CA(...), OCP(...), NPV(...) or EIS(...), with or
\* without a Setup before it
NewTechnique ==
    /\ pct \in {"setup", "ready"}
    /\ \E cls \in WrapperClasses, valid \in BOOLEAN :
           Constructed(Wrapper(cls, model_pstat, valid))
    /\ UNCHANGED model_pstat
    /\ UnchangedButTech

\* bipot has returned or raised
BipotDone(st) ==
    /\ wrapper' = st.obj
    /\ stdout' = stdout \o st.out
    /\ called' = [op |-> "bipot", exc |-> st.exc, count |-> called.count + 1]
    /\ pct' = IF st.exc = "" THEN "built" ELSE "raised"

\* wrapper.bipot(E, sens)
CallBipot ==
    /\ pct = "built" /\ called.count < MaxBipot
    /\ \E valid \in BOOLEAN : BipotDone(bipot(wrapper, model_pstat, valid))
    /\ UNCHANGED model_pstat
    /\ UnchangedButTech

NextTechnique == SetupTech \/ NewTechnique \/ CallBipot

SpecTechnique == InitTech /\ [][NextTechnique]_vars

----------------------------------------------------------------------------
(* Vocabulary of the properties, written from the wire format *)

LowerHex == <<"0", "1", "2", "3", "4", "5", "6", "7", "8", "9", "a", "b", "c", "d", "e", "f">>

UpperHex == <<"0", "1", "2", "3", "4", "5", "6", "7", "8", "9", "A", "B", "C", "D", "E", "F">>

IsHexChar(c) == \E n \in 1..16 : c = LowerHex[n] \/ c = UpperHex[n]

HexCharValue(c) == (CHOOSE n \in 1..16 : c = LowerHex[n] \/ c = UpperHex[n]) - 1

IsSevenHex(h) == Len(h) = 7 /\ \A k \in 1..7 : IsHexChar(h[k])

\* the unsigned integer a 7-hex-digit string denotes, most significant digit first
hex_to_uint(h) ==
    HexCharValue(h[1]) * 16^6 + HexCharValue(h[2]) * 16^5 + HexCharValue(h[3]) * 16^4
        + HexCharValue(h[4]) * 16^3 + HexCharValue(h[5]) * 16^2
        + HexCharValue(h[6]) * 16 + HexCharValue(h[7])

PrefixKeys == {"a", "f", "p", "n", "u", "m", " ", "k", "M", "G", "T", "P", "E", "i"}

\* a token of the shape id + h + p: 2 characters, 7 hex digits, a table prefix
IsPlainToken(t) ==
    Len(t) = 10 /\ IsSevenHex(SubSeq(t, 3, 9)) /\ t[10] \in PrefixKeys

TableIds == {MSCRIPT_VAR_TYPES_LIST[k].id : k \in DOMAIN MSCRIPT_VAR_TYPES_LIST}

----------------------------------------------------------------------------
(* Properties of the decoder (SpecVar) *)

C7_UnknownTypeTolerated ==
    (Len(data) >= 2 /\ SubSeq(data, 1, 2) \notin TableIds) =>
        /\ (pcv /= "new" /\ (IsPlainToken(data) \/ SubSeq(data, 3, Len(data)) = NaNField))
               => Returned(var)
        /\ pcv = "type" =>
               prop = Return([id |-> SubSeq(data, 1, 2), name |-> "unknown", unit |-> ""])

C7_Witness ==
    /\ pcv = "type" /\ SubSeq(data, 1, 2) = <<"q", "1">> /\ IsPlainToken(data)
    /\ prop.val.name = "unknown" /\ prop.val.id = <<"q", "1">>

\* C10: every variable the decoder builds has si_prefix among the 14 keys of
\* the prefix table, and a token whose character at position 9 is not a key is
\* rejected when it is decoded.
C10_PrefixAlwaysInTable ==
    pcv /= "new" =>
        /\ Returned(var) => var.val.si_prefix \in PrefixKeys
        /\ (Len(data) >= 10 /\ data[10] \notin PrefixKeys) => ~Returned(var)

\* C11: a token whose value field data[2:9] is not seven hexadecimal digits,
\* and which is not the NaN sentinel, is never decoded: the constructor raises
\* and no raw_value is produced for it.
C11_NonHexFieldRejected ==
    (/\ pcv /= "new" /\ Len(data) >= 10
     /\ ~IsSevenHex(SubSeq(data, 3, 9))
     /\ SubSeq(data, 3, 10) /= NaNField)
        => ~Returned(var)

----------------------------------------------------------------------------
(* Vocabulary of the properties of lines and curves *)

IsMetaToken(m) ==
    \/ Len(m) = 2 /\ m[1] = "1" /\ IsHexChar(m[2])
    \/ Len(m) = 3 /\ m[1] = "2" /\ IsHexChar(m[2]) /\ IsHexChar(m[3])

\* <id><7 hex digits><prefix>[,<metadata token>]*, or the NaN field for the value
WellFormedToken(t) ==
    /\ Len(t) >= 10
    /\ \/ IsSevenHex(SubSeq(t, 3, 9)) /\ t[10] \in PrefixKeys
       \/ SubSeq(t, 3, 10) = <<" ", " ", " ", " ", " ", "n", "a", "n">>
    /\ \/ Len(t) = 10
       \/ /\ t[11] = ","
          /\ LET ms == Split(SubSeq(t, 12, Len(t)), ",")
             IN  \A k \in 1..Len(ms) : IsMetaToken(ms[k])

HasPackageShape(l) == Len(l) >= 2 /\ l[1] = "P" /\ l[Len(l)] = "\n"

Segments(l) == Split(SubSeq(l, 2, Len(l) - 1), ";")

WellFormedPackageLine(l) ==
    HasPackageShape(l) /\ \A k \in 1..Len(Segments(l)) : WellFormedToken(Segments(l)[k])

\* a package line with a non-empty variable token that is not well formed
MalformedPackageLine(l) ==
    /\ HasPackageShape(l)
    /\ \E k \in 1..Len(Segments(l)) :
           Segments(l)[k] /= << >> /\ ~WellFormedToken(Segments(l)[k])

IsTermLine(l) == Len(l) >= 1 /\ l[1] \in {"+", "*", "-"}

IsRelevantLine(l) == IsTermLine(l) \/ WellFormedPackageLine(l)

\* the last line of the run of package lines that starts at line a
RunEnd(ls, a) ==
    CHOOSE b \in a..Len(ls) :
        /\ \A k \in a..b : WellFormedPackageLine(ls[k])
        /\ b = Len(ls) \/ ~WellFormedPackageLine(ls[b + 1])

\* the first lines of the maximal runs of package lines that a terminator follows
ClosedRunStarts(ls) ==
    {a \in 1..Len(ls) :
        /\ WellFormedPackageLine(ls[a])
        /\ a = 1 \/ ~WellFormedPackageLine(ls[a - 1])
        /\ RunEnd(ls, a) < Len(ls) /\ IsTermLine(ls[RunEnd(ls, a) + 1])}

PackageOf(l) == parse_mscript_data_package(l).val.vars

\* one curve per closed run, in input order, over terminator and package lines
ExpectedCurves(ls) ==
    LET starts == ClosedRunStarts(ls)
        nth(k) == CHOOSE a \in starts : Cardinality({x \in starts : x < a}) = k - 1
    IN  [k \in 1..Cardinality(starts) |->
            [j \in 1..(RunEnd(ls, nth(k)) - nth(k) + 1) |-> PackageOf(ls[nth(k) + j - 1])]]

RECURSIVE FlattenCurves(_)
FlattenCurves(cs) == IF cs = << >> THEN << >> ELSE Head(cs) \o FlattenCurves(Tail(cs))

LastTerminator(ls) ==
    IF \E k \in 1..Len(ls) : IsTermLine(ls[k])
    THEN CHOOSE k \in 1..Len(ls) :
             IsTermLine(ls[k]) /\ \A m \in (k + 1)..Len(ls) : ~IsTermLine(ls[m])
    ELSE 0

----------------------------------------------------------------------------
(* Properties of parse_result_lines (Spec, SpecDirty) *)

\* C2: on an input of well-formed package lines and terminator lines only, the
\* result is, in input order, one curve per maximal run of consecutive package
\* lines that a terminator follows, each holding the packages of its run in
\* line order.
C2_CurveSegmentation ==
    (pc = "returned" /\ \A k \in 1..Len(lines) : IsRelevantLine(lines[k])) =>
        result = Return(ExpectedCurves(lines))

\* P,P,*,P,- gives two curves, of 2 and of 1 package
C2_Witness ==
    /\ pc = "returned"
    /\ lines = <<LineA, LineB, LineStar, LineA, LineMinus>>
    /\ Len(result.val) = 2 /\ Len(result.val[1]) = 2 /\ Len(result.val[2]) = 1
    /\ result.val[1][2] = PackageOf(LineB)

\* C3: the packages of the result are exactly those of the package lines that
\* come before the last terminator: packages after it, or of an input without
\* any terminator, are not returned.
C3_NoFlushAtEnd ==
    pc = "returned" =>
        LET closed == SelectSeq(SubSeq(lines, 1, LastTerminator(lines)),
                                WellFormedPackageLine)
        IN  /\ Returned(result)
            /\ FlattenCurves(result.val) = [k \in 1..Len(closed) |-> PackageOf(closed[k])]
            /\ LastTerminator(lines) = 0 => result.val = << >>

\* two package lines and no terminator: both are accumulated, none is returned
C3_Witness ==
    /\ pc = "returned" /\ lines = <<LineA, LineB>>
    /\ Len(current_curve) = 2 /\ result = Return(<< >>)

\* C4: no curve that is emitted is empty, and a terminator met while the
\* accumulator is empty leaves the emitted curves and the accumulator as they are.
C4_NoEmptyCurve ==
    /\ [](/\ \A c \in 1..Len(curves) : curves[c] /= << >>
          /\ pc = "returned" => \A c \in 1..Len(result.val) : result.val[c] /= << >>)
    /\ [][(/\ pc = "loop" /\ idx < Len(lines)
           /\ IsTermLine(lines[idx + 1]) /\ current_curve = << >>)
              => (curves' = curves /\ current_curve' = current_curve)]_vars

\* a package, its terminator and a second terminator have been consumed
C4_Witness ==
    /\ pc = "loop" /\ idx = 3
    /\ WellFormedPackageLine(lines[1]) /\ IsTermLine(lines[2]) /\ IsTermLine(lines[3])
    /\ Len(curves) = 1 /\ current_curve = << >>

\* C6: a malformed package line never aborts parse_result_lines: it is dropped,
\* and the result is the one of the input without the malformed lines.
C6_MalformedLineDropped ==
    /\ pc /= "raised"
    /\ pc = "returned" =>
           result = Return(ExpectedCurves(SelectSeq(lines, IsRelevantLine)))

----------------------------------------------------------------------------
(* Properties of parse_mscript_data_package (SpecPackage) *)

\* C5: the call returns None for a line that does not start with 'P' or does
\* not end with the line terminator, and also, raising nothing, for a 'P...'
\* line with a malformed variable token.
C5_MalformedLineIsNone ==
    (pcp /= "new" /\ (~HasPackageShape(line) \/ MalformedPackageLine(line))) =>
        (Returned(package) /\ package.val.none)

----------------------------------------------------------------------------
(* Properties of get_values_by_column (SpecColumn) *)

\* C8: without a curve selected, the call returns one value per package of the
\* curves, in curve order and in package order within a curve, each the
\* value of the package's variable at the column.
C8_ColumnFlattening ==
    (pc = "projected" /\ ~values.icurve.given /\ Returned(values.out)) =>
        LET flat == FlattenCurves(result.val)
        IN  /\ Len(values.out.val) = Len(flat)
            /\ values.column >= 0 =>
                   \A n \in 1..Len(flat) :
                       values.out.val[n] = value(flat[n][values.column + 1]).val

\* curves of 2 and 1 packages: the first curve's two values, then the second's
C8_Witness ==
    /\ pc = "projected" /\ ~values.icurve.given /\ values.column = 0
    /\ lines = <<LineB, LineA, LineStar, LineB, LineStar>>
    /\ Returned(values.out) /\ Len(values.out.val) = 3
    /\ values.out.val[1] = values.out.val[3] /\ values.out.val[1] /= values.out.val[2]

\* the packages a call has to read
SelectedPackages(cs, icurve) ==
    IF ~icurve.given THEN FlattenCurves(cs)
    ELSE IF 0 <= icurve.k /\ icurve.k < Len(cs) THEN cs[icurve.k + 1]
    ELSE << >>

\* C9: the call fails, returning no array, whenever the column is not a
\* position 0 <= column < number of variables of some package it has to read.
C9_BadColumnFails ==
    (/\ pc = "projected"
     /\ \E n \in 1..Len(SelectedPackages(result.val, values.icurve)) :
            ~(0 <= values.column
              /\ values.column < Len(SelectedPackages(result.val, values.icurve)[n])))
        => ~Returned(values.out)

----------------------------------------------------------------------------
(* Vocabulary of the properties of the transport and of the driver *)

HasConnection == connection /= Unset

\* the end-of-measurement line as the device sends it
IsStarLine(b) == b \in {<<"*", "\n">>, <<"*", "\r", "\n">>}

IsLine(b) == b /= << >>

RECURSIVE CountOf(_, _)
CountOf(q, x) ==
    IF q = << >> THEN 0 ELSE (IF Head(q) = x THEN 1 ELSE 0) + CountOf(Tail(q), x)

\* every read so far has returned: none raised
NoReadFailed == CountOf(connection.calls, "readline") = Len(connection.delivered)

\* readlines_until_end has returned
ReadReturned == pcr \in {"read", "parse", "done"}

StateRank(st) ==
    CASE st = "none" -> 0 [] st = "Idle" -> 1 [] st = "ScriptSent" -> 2
      [] st = "Streaming" -> 3 [] st \in {"Completed", "TimedOut"} -> 4

KnownDescriptions == {<<"E", "m", "S", "t", "a", "t", "4">>}

KnownPrefixes ==
    {<<"E", "S", "P", "i", "c", "o", "D", "e", "v">>, <<"S", "e", "n", "s", "i", "t", "B", "T">>, <<"S", "e", "n", "s", "i", "t", "S", "m", "a", "r", "t">>, <<"E", "m", "S", "t", "a", "t", "4", " ", "L", "R", " ", "(", "C", "O", "M">>, <<"E", "m", "S", "t", "a", "t", "4", " ", "H", "R", " ", "(", "C", "O", "M">>,
     <<"M", "u", "l", "t", "i", "E", "m", "S", "t", "a", "t", "4", " ", "L", "R", " ", "(", "C", "O", "M">>, <<"M", "u", "l", "t", "i", "E", "m", "S", "t", "a", "t", "4", " ", "H", "R", " ", "(", "C", "O", "M">>, <<"U", "S", "B", " ", "S", "e", "r", "i", "a", "l", " ", "P", "o", "r", "t">>}

Matches(d) ==
    \/ d \in KnownDescriptions
    \/ \E q \in KnownPrefixes : Len(d) >= Len(q) /\ \A k \in 1..Len(q) : d[k] = q[k]

Matching(ps) == {k \in 1..Len(ps) : Matches(ps[k].description)}

Between(v, lo, hi) ==
    /\ ~v.nan /\ ~lo.nan /\ ~hi.nan
    /\ lo.n <= v.n /\ v.n <= hi.n

----------------------------------------------------------------------------
(* Properties of the exchange with the device (SpecRun) *)

\* C12: readlines_until_end stops at the first line equal to the marker '*':
\* no read is made after that line was delivered, the driver is then
\* Completed, and what it returns is every line delivered up to and including
\* that line, in the order of arrival.
C12_StopsAtEndMarker ==
    HasConnection =>
        LET d == connection.delivered
        IN  /\ \A k \in 1..(Len(d) - 1) : ~IsStarLine(d[k])
            /\ (d /= << >> /\ IsStarLine(d[Len(d)])) =>
                   /\ ReadReturned /\ state = "Completed"
                   /\ received = SelectSeq(d, IsLine)

\* a line, a timeout, a line and the marker: three lines are returned
C12_Witness ==
    /\ pcr = "done" /\ state = "Completed"
    /\ connection.delivered = <<LineA, << >>, LineA, LineStarCR>>
    /\ received = <<LineA, LineA, LineStarCR>>

\* C13: once two reads in a row have been delivered empty before any '*', the
\* loop has ended: the driver is TimedOut and returns the lines delivered so
\* far, none if there were none; after a single empty read and a line that is
\* not the marker the loop goes on.
C13_TimesOutOnSilence ==
    HasConnection =>
        LET d == connection.delivered
            n == Len(connection.delivered)
        IN  /\ \A k \in 1..(n - 2) : ~(d[k] = << >> /\ d[k + 1] = << >>)
            /\ (n >= 2 /\ d[n] = << >> /\ d[n - 1] = << >>) =>
                   /\ ReadReturned /\ state = "TimedOut"
                   /\ received = SelectSeq(d, IsLine)
            /\ (/\ NoReadFailed /\ n >= 1
                /\ IsLine(d[n]) \/ n = 1 \/ IsLine(d[n - 1])
                /\ ~IsStarLine(d[n])) =>
                   /\ pcr = "reading"
                   /\ received = SelectSeq(d, IsLine)

\* silence from the start: nothing is returned
C13_Witness ==
    /\ pcr = "done" /\ state = "TimedOut"
    /\ connection.delivered = << << >>, << >> >>
    /\ received = << >>

\* ... and a timeout, a line, then silence: the line is returned
C13_WitnessPartial ==
    /\ pcr = "done" /\ state = "TimedOut"
    /\ connection.delivered = << << >>, LineA, << >>, << >> >>
    /\ received = << LineA >>

C15_NoRetry ==
    /\ [](HasConnection =>
            /\ CountOf(trace, "send_script") <= 1
            /\ CountOf(connection.calls, "write") <= ScriptLines
            /\ StateRank(state) >= 2 =>
                   CountOf(connection.calls, "write") = ScriptLines)
    /\ [][(HasConnection /\ (state = "TimedOut" \/ run \notin {Unset, Return(TRUE)})) =>
             /\ connection'.delivered = connection.delivered
             /\ \/ connection'.calls = connection.calls
                \/ connection'.calls = Append(connection.calls, "close")
         ]_vars

\* the exchange timed out and run() went on to its end without another call
\* on the port than close()
C15_Witness ==
    /\ pcr = "done" /\ state = "TimedOut"
    /\ CountOf(connection.calls, "write") = ScriptLines
    /\ CountOf(connection.calls, "readline") = 2
    /\ Len(connection.calls) = ScriptLines + 4
    /\ connection.calls[Len(connection.calls)] = "close"

\* C18: with model emstatpico and a port given to Setup, run() does not
\* auto-detect, opens the Serial on that port and, the port answering, calls
\* send_script once and then readlines_until_end.
C18_ExplicitPortUsed ==
    (/\ pcr \in {"done", "raised"}
     /\ model_pstat = emstatpico /\ port_ /= NoPort) =>
        /\ CountOf(trace, "auto_detect_port") = 0
        /\ HasConnection /\ connection.port = port_.name
        /\ Returned(run) =>
               trace = <<"writeToFile", "Serial", "Instrument", "send_script",
                         "readlines_until_end", "parse_result_lines", "Save">>

----------------------------------------------------------------------------
(* Properties of the Serial context manager (SpecSerial) *)

\* C16: for every with block, the port is opened on entry exactly when it was
\* not open, and a block that was entered and is left, by the end of its body
\* or by an exception, has close() called once, on leaving, and not before.
C16_ScopedOpenClose ==
    (pcs /= "new" /\ HasConnection) =>
        \A i \in 1..Len(trace) :
            LET blk == trace[i]
                calls == connection.calls
            IN  /\ CountOf(SubSeq(calls, blk.before + 1, blk.inside), "open")
                       = IF blk.was_open THEN 0 ELSE 1
                /\ blk.inside - blk.before = IF blk.was_open THEN 0 ELSE 1
                /\ ~blk.entered => blk.exit = "none"
                /\ (blk.entered /\ (i < Len(trace) \/ pcs \in {"made", "raised"})) =>
                       blk.exit /= "none"
                /\ blk.exit /= "none" =>
                       /\ CountOf(SubSeq(calls, blk.inside + 1, blk.leaving), "close") = 0
                       /\ SubSeq(calls, blk.leaving + 1, blk.after) = <<"close">>
                       /\ i = Len(trace) =>
                              CountOf(SubSeq(calls, blk.after + 1, Len(calls)), "close") = 0

\* a block on a port opened beforehand left by an exception, after a block
\* that opened the port itself and ended normally
C16_Witness ==
    /\ pcs = "raised" /\ Len(trace) = 2
    /\ ~trace[1].was_open /\ trace[1].exit = "return"
    /\ trace[2].was_open /\ trace[2].exit = "raise"
    /\ CountOf(connection.calls, "close") = 2

----------------------------------------------------------------------------
(* Properties of auto_detect_port (SpecDetect) *)

----------------------------------------------------------------------------
(* Properties of parse_result_lines called twice (SpecPure) *)

\* C19: the result of a call is the curves of its own input, whatever an
\* earlier call was given: it is what the closed runs of its lines say, and
\* it equals the result of the earlier call when the inputs are equal.
C19_ResultDependsOnInputOnly ==
    (pc = "returned" /\ first /= Unset) =>
        /\ result = Return(ExpectedCurves(lines))
        /\ first.val.lines = lines => result = first.val.result

\* the earlier call ended on an open run, the later one has other lines
C19_Witness ==
    /\ pc = "returned" /\ first /= Unset
    /\ first.val.lines = <<LineB, LineStar, LineA>>
    /\ lines = <<LineA, LineStar>>
    /\ result = Return(<< << PackageOf(LineA) >> >>)

----------------------------------------------------------------------------
(* Properties of Info.limits (SpecLimits) *)

\* C20: limits returns True exactly when low <= val <= high, and raises
\* ValueError otherwise.
C20_LimitsInclusive ==
    within /= Unset =>
        within = IF Between(val, low, high) THEN Return(TRUE) ELSE Raise("ValueError")

----------------------------------------------------------------------------
(* Vocabulary of the properties of the value field and of the metadata *)

\* the NaN sentinel of the value field and prefix: 8 characters
NaNSentinel == <<" ", " ", " ", " ", " ", "n", "a", "n">>

\* what follows the first ',' of a token, split on ','
MetadataOf(t) == Tail(Split(t, ","))

IsStatusShape(m) == Len(m) = 2 /\ m[1] = "1"

IsRangeShape(m) == Len(m) = 3 /\ m[1] = "2"

\* two characters that read as a hexadecimal number: two digits, or one digit
\* after a sign or next to a blank
IsHexPair(a, b) ==
    \/ IsHexChar(a) /\ IsHexChar(b)
    \/ a \in {"-", "+", " "} /\ IsHexChar(b)
    \/ IsHexChar(a) /\ b = " "

HexPairValue(a, b) ==
    IF IsHexChar(a) /\ IsHexChar(b) THEN 16 * HexCharValue(a) + HexCharValue(b)
    ELSE IF a = "-" THEN 0 - HexCharValue(b)
    ELSE IF IsHexChar(b) THEN HexCharValue(b)
    ELSE HexCharValue(a)

\* every metadata token of the status or range shape carries a readable payload
MetadataReadable(t) ==
    \A k \in 1..Len(MetadataOf(t)) :
        LET m == MetadataOf(t)[k]
        IN  /\ IsStatusShape(m) => IsHexChar(m[2])
            /\ IsRangeShape(m) => IsHexPair(m[2], m[3])

\* the last token of ms that has the shape P
LastWith(ms, P(_)) ==
    ms[CHOOSE k \in 1..Len(ms) : P(ms[k]) /\ \A j \in (k + 1)..Len(ms) : ~P(ms[j])]

IsNonEmpty(s) == s /= << >>

----------------------------------------------------------------------------
(* Further properties of parse_mscript_data_package (SpecPackage) *)

\* C21: of a line 'P...\n' only the non-empty ';'-separated segments are
\* decoded: an empty segment (the line 'P\n', a trailing ';', ';;') is skipped
\* and the variables of the other segments are returned in split order.
C21_EmptySegmentsSkipped ==
    (/\ pcp /= "new" /\ HasPackageShape(line)
     /\ \A k \in 1..Len(Segments(line)) :
            IsNonEmpty(Segments(line)[k]) => WellFormedToken(Segments(line)[k]))
        => LET segs == SelectSeq(Segments(line), IsNonEmpty)
           IN  /\ Returned(package) /\ ~package.val.none
               /\ Len(package.val.vars) = Len(segs)
               /\ \A k \in 1..Len(segs) : package.val.vars[k].data = segs[k]

----------------------------------------------------------------------------
(* Further properties of the decoder (SpecVar) *)

\* C22: a token whose characters 2..9 are the NaN sentinel decodes to
\* raw_value NaN, si_prefix ' ' and value NaN without its value field being
\* read as hexadecimal (only its metadata can make the decoding fail); any
\* other token has its value field read as hexadecimal and its character 9
\* stored as the prefix.
C22_NaNSentinel ==
    (pcv /= "new" /\ Len(data) >= 10) =>
        IF SubSeq(data, 3, 10) = NaNSentinel
        THEN /\ Returned(var) <=> MetadataReadable(data)
             /\ Returned(var) =>
                    /\ var.val.raw_value = [nan |-> TRUE, n |-> 0]
                    /\ var.val.si_prefix = " "
             /\ pcv = "value" => prop = Return([nan |-> TRUE, mant |-> 0, exp10 |-> 0])
        ELSE /\ Returned(var) =>
                    /\ ~var.val.raw_value.nan
                    /\ var.val.si_prefix = data[10]
                    /\ IsSevenHex(SubSeq(data, 3, 9)) =>
                           var.val.raw_value.n = hex_to_uint(SubSeq(data, 3, 9)) - 2^27
             /\ (\E k \in 3..9 : ~IsHexChar(data[k]) /\ data[k] \notin {"-", "+", " ", "x", "_"})
                    => ~Returned(var)

\* a NaN reading that carries metadata, once its value was read
C22_Witness ==
    /\ pcv = "value" /\ Len(data) > 10 /\ SubSeq(data, 3, 10) = NaNSentinel
    /\ "status" \in DOMAIN var.val.metadata
    /\ prop.val.nan

\* C23: the metadata of a decoded token has the key 'status' iff a metadata
\* token has 2 characters and starts with '1', its value the second character
\* read as a hex digit, and the key 'cr' iff a metadata token has 3 characters
\* and starts with '2', its value the last two characters read as hex; no
\* other token adds a key, and what precedes the first ',' is no metadata.
C23_MetadataKeys ==
    (pcv /= "new" /\ Returned(var)) =>
        LET ms == MetadataOf(data)
            md == var.val.metadata
        IN  /\ DOMAIN md \subseteq {"status", "cr"}
            /\ "status" \in DOMAIN md <=> \E k \in 1..Len(ms) : IsStatusShape(ms[k])
            /\ "cr" \in DOMAIN md <=> \E k \in 1..Len(ms) : IsRangeShape(ms[k])
            /\ "status" \in DOMAIN md =>
                   md["status"] = HexCharValue(LastWith(ms, IsStatusShape)[2])
            /\ "cr" \in DOMAIN md =>
                   md["cr"] = HexPairValue(LastWith(ms, IsRangeShape)[2],
                                           LastWith(ms, IsRangeShape)[3])

\* a status token next to a token of neither shape
C23_Witness ==
    /\ pcv = "built" /\ Len(MetadataOf(data)) = 2
    /\ MetadataOf(data)[1] = <<"3", "0", "a">> /\ MetadataOf(data)[2] = <<"1", "f">>
    /\ DOMAIN var.val.metadata = {"status"} /\ var.val.metadata["status"] = 15

\* C28: the raw_value of a decoded token is NaN or an integer of
\* -2^27 .. 2^27 - 1.
C28_RawValueRange ==
    (pcv /= "new" /\ Returned(var)) =>
        \/ var.val.raw_value.nan
        \/ /\ 0 - 2^27 <= var.val.raw_value.n
           /\ var.val.raw_value.n <= 2^27 - 1

\* C30: of a decoded token 'status', when present, is in 0..15 and 'cr', when
\* present, in 0..255, and a token with a metadata token of the status or
\* range shape whose payload is not made of hex digits is not decoded.
C30_MetadataRange ==
    pcv /= "new" =>
        /\ Returned(var) =>
               /\ "status" \in DOMAIN var.val.metadata =>
                      var.val.metadata["status"] \in 0..15
               /\ "cr" \in DOMAIN var.val.metadata => var.val.metadata["cr"] \in 0..255
        /\ (\E k \in 1..Len(MetadataOf(data)) :
               LET m == MetadataOf(data)[k]
               IN  \/ IsStatusShape(m) /\ ~IsHexChar(m[2])
                   \/ IsRangeShape(m) /\ ~(IsHexChar(m[2]) /\ IsHexChar(m[3])))
               => ~Returned(var)

----------------------------------------------------------------------------
(* Further properties of parse_result_lines *)

\* the packages the curves and the accumulator hold
PackagesHeld == Len(FlattenCurves(curves)) + Len(current_curve)

\* C24: a line that is neither a terminator nor a valid package line, the
\* empty line included, raises nothing and adds nothing: the call never ends
\* on an exception at such a line, and the curves and the accumulator hold
\* exactly one package per valid package line read so far.
C24_OtherLinesIgnored ==
    /\ pc = "raised" =>
           (IsTermLine(lines[idx + 1]) \/ WellFormedPackageLine(lines[idx + 1]))
    /\ pc = "loop" =>
           PackagesHeld =
               Len(SelectSeq(SubSeq(lines, 1, idx), WellFormedPackageLine))

\* a is a prefix of b
IsPrefix(a, b) == Len(a) <= Len(b) /\ SubSeq(b, 1, Len(a)) = a

\* C26: parse_result_lines is prefix-monotonic: of two calls, one on a prefix
\* of the lines of the other, the result of the call on the prefix is a
\* prefix of the other result, so later lines never change, reorder or remove
\* a curve the earlier lines gave.
C26_PrefixMonotonic ==
    (pc = "returned" /\ first /= Unset) =>
        /\ IsPrefix(first.val.lines, lines) =>
               IsPrefix(first.val.result.val, result.val)
        /\ IsPrefix(lines, first.val.lines) =>
               IsPrefix(result.val, first.val.result.val)

\* the later call has the lines of the earlier one, which ended inside an
\* open run after a closed one, and the terminator that closes that run
C26_Witness ==
    /\ pc = "returned" /\ first /= Unset
    /\ first.val.lines = <<LineStar, LineA>> /\ first.val.result.val = << >>
    /\ lines = <<LineStar, LineA, LineStar>> /\ Len(result.val) = 1

----------------------------------------------------------------------------
(* Further properties of Technique.run (SpecRun) *)

\* the steps of run() for the Emstat Pico, in the order of the code
RunSteps ==
    <<"writeToFile", "Serial", "send_script", "readlines_until_end",
      "parse_result_lines", "Save">>

IsRunStep(x) == \E k \in 1..Len(RunSteps) : RunSteps[k] = x

Occurred(x) == CountOf(trace, x) > 0

PortClosed ==
    /\ HasConnection /\ ~connection.is_open
    /\ connection.calls /= << >>
    /\ connection.calls[Len(connection.calls)] = "close"

\* C27: for model emstatpico the steps of run() occur only in the order
\* write script file, open port, send_script, readlines_until_end, close port,
\* parse_result_lines, Save: the port is opened before anything is written,
\* written before it is read, and closed before parsing and saving start; and
\* when send_script or readlines_until_end raises the port is closed all the
\* same and neither parse_result_lines nor Save is called.
C27_RunOrder ==
    (model_pstat = emstatpico /\ pcr \notin {"setup", "ready"}) =>
        /\ IsPrefix(SelectSeq(trace, IsRunStep), RunSteps)
        /\ HasConnection =>
               /\ Occurred("Serial")
               /\ \A i \in 1..Len(connection.calls) :
                      /\ connection.calls[i] = "open" <=> i = 1
                      /\ connection.calls[i] = "close" => i = Len(connection.calls)
                      /\ connection.calls[i] = "write" =>
                             /\ Occurred("send_script")
                             /\ \A j \in 1..i : connection.calls[j] /= "readline"
                      /\ connection.calls[i] = "readline" =>
                             Occurred("readlines_until_end")
        /\ Occurred("parse_result_lines") => PortClosed
        /\ (pcr = "raised" /\ Occurred("send_script")) =>
               /\ PortClosed
               /\ ~Occurred("parse_result_lines") /\ ~Occurred("Save")
        /\ pcr = "done" => SelectSeq(trace, IsRunStep) = RunSteps /\ PortClosed

\* a read failed after a line was received: the port was closed and run()
\* raised
C27_Witness ==
    /\ model_pstat = emstatpico /\ pcr = "raised" /\ run = Raise(SerialException)
    /\ Occurred("readlines_until_end") /\ Len(received) >= 1
    /\ PortClosed /\ ~Occurred("parse_result_lines")

----------------------------------------------------------------------------
(* Properties of the technique wrappers (SpecTechnique) *)

Printed(kind) == \E k \in 1..Len(stdout) : stdout[k].msg = kind

\* C25: bipot never enables the bipotentiostat mode of an OCP or an EIS,
\* whatever the model: bpot stays False, the text stays the one the wrapper
\* was built with, the bipot of the model-specific object is not called, and
\* the call returns having said that the technique has no such mode.
C25_NoBipotForOCPAndEIS ==
    (wrapper /= Unset /\ wrapper.init /\ wrapper.technique \in {"OCP", "EIS"}) =>
        /\ ~wrapper.bpot
        /\ wrapper.text = [model |-> model_pstat, cls |-> wrapper.technique, bipot |-> FALSE]
        /\ wrapper.tech.text = wrapper.text
        /\ wrapper.tech.bipots = 0
        /\ called.op = "bipot" =>
               /\ called.exc = ""
               /\ stdout[Len(stdout)].msg = "does not have bipotentiostat mode"

\* bipot was called more than once on an EIS of the Emstat Pico
C25_Witness ==
    /\ model_pstat = emstatpico /\ wrapper /= Unset /\ wrapper.technique = "EIS"
    /\ called.op = "bipot" /\ called.count >= 2 /\ ~wrapper.bpot

\* C29: for a model of models_available, the construction of a CV, an LSV, a
\* CA or an OCP takes the branch of at most one model, and prints 'does not
\* have <technique>' exactly when it took none.
C29_OneBuilderOrMessage ==
    (/\ wrapper /= Unset /\ wrapper.cls \in {"CV", "LSV", "CA", "OCP"}
     /\ \E k \in 1..Len(models_available) : models_available[k] = model_pstat) =>
        /\ Len(wrapper.selected) <= 1
        /\ Printed("does not have") <=> Len(wrapper.selected) = 0

====
